---- MODULE Spec2Model ----
(***************************************************************************)
(* A model of the QuickBooks company-to-company transfer (main.py and the  *)
(* qb_*.py transfer classes).  Strings are sequences of character tokens,  *)
(* so that strip, split(':'), ':'.join, "in" (substring) and the f-string  *)
(* composite keys are computed the way the Python code computes them.      *)
(* Optional values are <<>> (None / attribute missing) or <<v>>.           *)
(***************************************************************************)
EXTENDS Integers, Sequences, FiniteSets, TLC

VARIABLES
    source,         \* source tenant: [entity type -> Seq(record)]
    target,         \* target tenant: [entity type -> Seq(record)]
    nextId,         \* the target tenant's id allocator
    plan,           \* the transfers main() still has to run
    passNo,         \* how many transfers have been started
    pc,             \* position in main() / transfer_*()
    cur,            \* entity type of the running transfer
    id_mapping,     \* self.id_mapping of the running transfer object
    existing,       \* self.existing_* catalogs of the running transfer object
    catalog_loaded, \* did the fetch of the running transfer's own catalog go through
    mapping_file,   \* the file id_mapping.json: None while there is no such file
    walk,           \* the locals of a call of _sort_accounts_by_hierarchy: None outside one
    source_classes, \* self.source_classes (journal transfer)
    queue,          \* the filtered list the loop iterates over
    idx,            \* loop position in queue (1-based)
    success_count,
    skipped_count,
    update_count,
    create_count,
    faults,         \* API failures injected so far
    calls,          \* every save issued to a tenant, in order
    ends            \* one summary per finished transfer

vars == <<source, target, nextId, plan, passNo, pc, cur, id_mapping, existing, catalog_loaded,
          mapping_file, walk,
          source_classes, queue, idx, success_count, skipped_count,
          update_count, create_count, faults, calls, ends>>

-----------------------------------------------------------------------------
(* Bounds of the model *)

MaxRecs == 3
MaxTgt == 1
MaxFaults == 1
MaxLines == 2
\* a second source entry follows a first entry of at most this many lines
MaxLinesBeforeSecond == 1
MaxCatalogClasses == 3
MaxCatalogAccounts == 2
\* the accounts handed to _sort_accounts_by_hierarchy
MaxWalkAccounts == 3
\* the iterations of the loop of get_account_depth a behaviour follows
MaxDepth == 4

-----------------------------------------------------------------------------
(* Python strings and dicts *)

None == <<>>
Some(v) == <<v>>

RECURSIVE LStrip(_)
LStrip(s) == IF s # <<>> /\ Head(s) = " " THEN LStrip(Tail(s)) ELSE s

RECURSIVE RStrip(_)
RStrip(s) ==
    IF s # <<>> /\ s[Len(s)] = " " THEN RStrip(SubSeq(s, 1, Len(s) - 1)) ELSE s

Strip(s) == RStrip(LStrip(s))

RECURSIVE SplitAcc(_, _, _)
SplitAcc(s, sep, acc) ==
    IF s = <<>> THEN <<acc>>
    ELSE IF Head(s) = sep THEN <<acc>> \o SplitAcc(Tail(s), sep, <<>>)
    ELSE SplitAcc(Tail(s), sep, Append(acc, Head(s)))

Split(s, sep) == SplitAcc(s, sep, <<>>)

RECURSIVE Join(_, _)
Join(parts, sep) ==
    IF parts = <<>> THEN <<>>
    ELSE IF Len(parts) = 1 THEN parts[1]
    ELSE parts[1] \o <<sep>> \o Join(Tail(parts), sep)

\* pattern in s
Contains(s, pattern) ==
    \E k \in 0..(Len(s) - Len(pattern)) :
        SubSeq(s, k + 1, k + Len(pattern)) = pattern

EmptyMap == [k \in {} |-> <<>>]
Put(m, k, v) == [x \in (DOMAIN m) \cup {k} |-> IF x = k THEN v ELSE m[x]]
Has(m, k) == k \in DOMAIN m
Get(m, k) == IF k \in DOMAIN m THEN Some(m[k]) ELSE None

Last(s) == s[Len(s)]
Front(s) == SubSeq(s, 1, Len(s) - 1)

\* getattr(obj, 'Active', default)
ActiveOr(r, default) == IF r.Active = "absent" THEN default ELSE r.Active = "true"

Digits == <<"1", "2", "3", "4", "5", "6", "7", "8", "9", "10", "11", "12", "13", "14",
           "15", "16", "17", "18", "19", "20">>
IdStr(n) == <<Digits[n]>>

RECURSIVE SeqsUpTo(_, _)
SeqsUpTo(S, n) ==
    IF n = 0 THEN {<<>>}
    ELSE LET prev == SeqsUpTo(S, n - 1)
         IN  prev \cup {Append(s, x) : s \in {p \in prev : Len(p) = n - 1}, x \in S}

\* lists of records with pairwise distinct ids
DistinctIds(s) == \A a, b \in 1..Len(s) : a # b => s[a].Id # s[b].Id
Lists(S, n) == {s \in SeqsUpTo(S, n) : DistinctIds(s)}

\* the target tenant numbers its records itself
AssignIds(s) == [k \in 1..Len(s) |-> [s[k] EXCEPT !.Id = IdStr(k)]]

\* list.sort(key=...) is stable
RECURSIVE InsertByKey(_, _, _)
InsertByKey(sorted, r, k) ==
    IF sorted = <<>> THEN <<r>>
    ELSE IF k[Head(sorted)] <= k[r] THEN <<Head(sorted)>> \o InsertByKey(Tail(sorted), r, k)
    ELSE <<r>> \o sorted

RECURSIVE SortByKey(_, _)
SortByKey(s, k) ==
    IF s = <<>> THEN <<>> ELSE InsertByKey(SortByKey(Front(s), k), Last(s), k)

RECURSIVE SelectSeqBy(_, _)
SelectSeqBy(s, keep) ==
    IF s = <<>> THEN <<>>
    ELSE (IF Head(s) \in keep THEN <<Head(s)>> ELSE <<>>) \o SelectSeqBy(Tail(s), keep)

Range(s) == {s[k] : k \in 1..Len(s)}

-----------------------------------------------------------------------------
(* Entity types and the per-type policies of the five plain transfers *)

PlainTypes == {"Account", "Employee", "Customer", "Class", "Vendor"}
AllTypes == PlainTypes \cup {"JournalEntry"}

\* qb_account.py: AccountTransfer._is_default_account
default_patterns ==
    { <<"Accounts", " ", "Payable">>,
      <<"Accounts", " ", "Receivable">>,
      <<"Opening", " ", "Balance", " ", "Equity">>,
      <<"Retained", " ", "Earnings">>,
      <<"Sales", " ", "of", " ", "Product", " ", "Income">>,
      <<"Undeposited", " ", "Funds">>,
      <<"Inventory", " ", "Asset">> }

_is_default_account(account) ==
    \E pattern \in default_patterns : Contains(account.Name, pattern)

\* an activity test for which a record without an Active field is active,
\* whatever its type
_is_active_AbsentIsActive(T, r) == ActiveOr(r, TRUE)

\* _is_active_account / _is_active_employee default to False,
\* _is_active_customer / _is_active_class / _is_active_vendor to True
_is_active(T, r) == ActiveOr(r, T \in {"Customer", "Class", "Vendor"})

\* EmployeeTransfer._get_employee_full_name
_get_employee_full_name(e) == Strip(e.GivenName \o <<" ">> \o e.FamilyName)

\* ClassTransfer._get_class_name, _get_*_display_name
_get_class_name(c) == Strip(c.Name)
_get_display_name(r) == Strip(r.DisplayName)

\* ClassTransfer._get_hierarchy_level
_get_hierarchy_level(c) ==
    IF c.FullyQualifiedName = <<>> THEN 0
    ELSE Len(Split(c.FullyQualifiedName, ":"))

\* the key under which _get_existing_<type>() files a target record
CatalogKey(T, r) ==
    CASE T = "Account" -> r.Name
      [] T = "Employee" -> _get_employee_full_name(r)
      [] T = "Customer" -> _get_display_name(r)
      [] T = "Class" -> _get_class_name(r)
      [] T = "Vendor" -> _get_display_name(r)

\* the key transfer_<type>() and _create_single_<type>() look a source record up by
LookupKey(T, r) ==
    CASE T = "Account" -> r.Name
      [] T = "Employee" -> _get_employee_full_name(r)
      [] T = "Customer" -> _get_display_name(r)
      [] T = "Class" -> r.FullyQualifiedName
      [] T = "Vendor" -> _get_display_name(r)

\* one iteration of the dict-building loop of _get_existing_<type>()
CatalogStep(T, m, r) ==
    IF T = "Vendor"
    THEN IF CatalogKey(T, r) # <<>>
         THEN Put(Put(m, CatalogKey(T, r), r), r.Id, r)
         ELSE m
    ELSE Put(m, CatalogKey(T, r), r)

RECURSIVE BuildCatalog(_, _, _)
BuildCatalog(T, recs, m) ==
    IF recs = <<>> THEN m
    ELSE BuildCatalog(T, Tail(recs), CatalogStep(T, m, Head(recs)))

\* a loader that yields the catalog whether or not the fetch raised
_get_existing_IgnoresFailure(T, recs, fetched) == BuildCatalog(T, recs, EmptyMap)

\* _get_existing_<type>(): the catalog, or {} when the fetch raised
_get_existing(T, recs, fetched) ==
    IF fetched THEN BuildCatalog(T, recs, EmptyMap) ELSE EmptyMap

\* transfer_accounts() without its default-account filter
TransferSet_KeepDefaults(T, all) ==
    CASE T = "Class" ->
           LET act == SelectSeqBy(all, {c \in Range(all) : _is_active(T, c)})
           IN  SortByKey(act, [c \in Range(act) |-> _get_hierarchy_level(c)])
      [] T = "Vendor" -> all
      [] OTHER -> SelectSeqBy(all, {r \in Range(all) : _is_active(T, r)})

\* the list comprehension (and, for classes, the sort) of transfer_<type>()
TransferSet(T, all) ==
    CASE T = "Account" ->
           SelectSeqBy(all, {a \in Range(all) : ~_is_default_account(a) /\ _is_active(T, a)})
      [] T = "Class" ->
           LET act == SelectSeqBy(all, {c \in Range(all) : _is_active(T, c)})
           IN  SortByKey(act, [c \in Range(act) |-> _get_hierarchy_level(c)])
      [] T = "Vendor" -> all
      [] OTHER -> SelectSeqBy(all, {r \in Range(all) : _is_active(T, r)})

-----------------------------------------------------------------------------
(* The transfer object's mutable state, threaded through the helpers *)

Self == [target |-> target, nextId |-> nextId, id_mapping |-> id_mapping,
         existing |-> existing, calls |-> calls]

\* a table that keeps only the entry written last
SetMapping_ForgetsEarlier(st, T, srcId, tgtId) ==
    [st EXCEPT !.id_mapping[T] = Put(EmptyMap, srcId, tgtId)]

SetMapping(st, T, srcId, tgtId) ==
    [st EXCEPT !.id_mapping[T] = Put(@, srcId, tgtId)]

SetExisting(st, T, key, rec) ==
    [st EXCEPT !.existing[T] = Put(@, key, rec)]

\* QuickBooksClient.save_id_mapping: the file after json.dump(self.id_mapping, f);
\* the table's keys and values are strings, which JSON keeps as they are
save_id_mapping(table) == Some(table)

\* QuickBooksClient.load_id_mapping: self.id_mapping after the call; the table
\* stays as it is when there is no file
load_id_mapping(file, table) == IF file = None THEN table ELSE file[1]

\* a save issued with the source client: the target stores nothing
Save_ToSource(st, T, srcId, obj, result) ==
    [st EXCEPT !.calls =
        Append(@, [pass |-> passNo, tenant |-> "source", op |-> "save", type |-> T,
                   src |-> srcId, sent |-> obj, result |-> result,
                   created |-> obj.Id = None, id |-> None, error |-> None])]

\* <object>.save(qb=self.target_client): the target stores what it was sent
\* under an id of its own (result "ok"), or rejects it
Save(st, T, srcId, obj, result) ==
    LET isNew == obj.Id = None
        stored == IF isNew THEN [obj EXCEPT !.Id = IdStr(st.nextId)] ELSE obj
        call == [pass |-> passNo, tenant |-> "target", op |-> "save", type |-> T,
                 src |-> srcId, sent |-> obj, result |-> result,
                 created |-> isNew, id |-> IF result = "ok" THEN stored.Id ELSE None,
                 error |-> None]
    IN  IF result = "ok"
        THEN [st EXCEPT
                !.target[T] =
                    IF isNew THEN Append(@, stored)
                    ELSE [k \in 1..Len(@) |-> IF @[k].Id = obj.Id THEN stored ELSE @[k]],
                !.nextId = IF isNew THEN @ + 1 ELSE @,
                !.calls = Append(@, call)]
        ELSE [st EXCEPT !.calls = Append(@, call)]

\* the object save() returned
Saved(st, obj) == IF obj.Id = None THEN [obj EXCEPT !.Id = IdStr(st.nextId)] ELSE obj

\* AccountTransfer._copy_account_attributes
_copy_account_attributes(st, a) ==
    [Id |-> None, Name |-> a.Name, AcctNum |-> a.AcctNum, Active |-> a.Active,
     ParentRef |->
        IF a.ParentRef # None /\ Has(st.id_mapping["Account"], a.ParentRef[1].value)
        THEN Some([value |-> st.id_mapping["Account"][a.ParentRef[1].value],
                   name |-> a.ParentRef[1].name])
        ELSE None]

\* EmployeeTransfer._copy_employee_attributes
_copy_employee_attributes(st, e) ==
    [Id |-> None, GivenName |-> e.GivenName, FamilyName |-> e.FamilyName,
     DisplayName |-> e.DisplayName, Active |-> e.Active]

\* CustomerTransfer._copy_customer_attributes
_copy_customer_attributes(st, c) ==
    [Id |-> None, DisplayName |-> c.DisplayName, Active |-> c.Active]

\* VendorTransfer._copy_vendor_attributes
_copy_vendor_attributes(st, v) ==
    [Id |-> None, DisplayName |-> v.DisplayName, Active |-> v.Active]

\* ClassTransfer._copy_class_attributes
_copy_class_attributes(st, c) ==
    LET fully_qualified == c.FullyQualifiedName
        parent_name == Join(Front(Split(fully_qualified, ":")), ":")
    IN  [Id |-> None, Name |-> c.Name, Active |-> c.Active,
         FullyQualifiedName |-> c.FullyQualifiedName,
         ParentRef |->
            IF fully_qualified # <<>> /\ Contains(fully_qualified, <<":">>)
               /\ Has(st.existing["Class"], parent_name)
            THEN Some([value |-> st.existing["Class"][parent_name].Id,
                       name |-> parent_name])
            ELSE None]

CopyAttributes(T, st, r) ==
    CASE T = "Account" -> _copy_account_attributes(st, r)
      [] T = "Employee" -> _copy_employee_attributes(st, r)
      [] T = "Customer" -> _copy_customer_attributes(st, r)
      [] T = "Class" -> _copy_class_attributes(st, r)
      [] T = "Vendor" -> _copy_vendor_attributes(st, r)

\* what a save() call can end in: the stored object, a QuickbooksException
\* (error_code, and the id its detail text names, if any) or another exception
Ok == [kind |-> "ok", error_code |-> <<>>, detail |-> None]
QbError(code, detail) == [kind |-> "qb_error", error_code |-> code, detail |-> detail]
OtherError == [kind |-> "error", error_code |-> <<>>, detail |-> None]

\* a _create_single_<type> that reports success whatever the save did
_create_single_FailureCounted(T, st, r, result) ==
    LET key == LookupKey(T, r) IN
    IF Has(st.existing[T], key)
    THEN [ok |-> TRUE, st |-> SetMapping(st, T, r.Id, st.existing[T][key].Id)]
    ELSE [ok |-> TRUE, st |-> Save(st, T, r.Id, CopyAttributes(T, st, r), result.kind)]

\* a _create_single_<type> that does not add the created record to the catalog
_create_single_CatalogNotUpdated(T, st, r, result) ==
    LET key == LookupKey(T, r) IN
    IF Has(st.existing[T], key)
    THEN [ok |-> TRUE, st |-> SetMapping(st, T, r.Id, st.existing[T][key].Id)]
    ELSE LET new == CopyAttributes(T, st, r)
             after == Save(st, T, r.Id, new, result.kind)
         IN  IF result.kind = "ok"
             THEN [ok |-> TRUE, st |-> SetMapping(after, T, r.Id, Saved(st, new).Id)]
             ELSE [ok |-> FALSE, st |-> after]

\* _create_single_account / _employee / _customer / _class: [ok, st]
_create_single(T, st, r, result) ==
    LET key == LookupKey(T, r) IN
    IF Has(st.existing[T], key)
    THEN [ok |-> TRUE, st |-> SetMapping(st, T, r.Id, st.existing[T][key].Id)]
    ELSE LET new == CopyAttributes(T, st, r)
             after == Save(st, T, r.Id, new, result.kind)
             created == Saved(st, new)
         IN  IF result.kind = "ok"
             THEN [ok |-> TRUE,
                   st |-> SetExisting(SetMapping(after, T, r.Id, created.Id),
                                      T, key, created)]
             ELSE [ok |-> FALSE, st |-> after]

\* Vendor.query("SELECT * FROM Vendor WHERE DisplayName = '<name>'")
QueryVendors(st, name) ==
    SelectSeqBy(st.target["Vendor"],
                {v \in Range(st.target["Vendor"]) : v.DisplayName = name})

\* VendorTransfer._find_existing_vendor: [found, st]; queried says whether the
\* direct query went through or raised
_find_existing_vendor(st, vendor_name, queried) ==
    IF Has(st.existing["Vendor"], vendor_name)
    THEN [found |-> Some(st.existing["Vendor"][vendor_name]), st |-> st]
    ELSE LET vendors == IF queried THEN QueryVendors(st, vendor_name) ELSE <<>> IN
         IF vendors # <<>>
         THEN [found |-> Some(vendors[1]),
               st |-> SetExisting(SetExisting(st, "Vendor", vendor_name, vendors[1]),
                                  "Vendor", vendors[1].Id, vendors[1])]
         ELSE [found |-> None, st |-> st]

\* the QuickbooksException the last save raised, as _create_single_vendor
\* reads it: qb_error.error_code and the id qb_error.detail names
Raised(st, result) ==
    IF result.kind = "qb_error"
    THEN [st EXCEPT !.calls[Len(st.calls)].error =
                        Some([error_code |-> result.error_code, detail |-> result.detail])]
    ELSE st

\* a vendor transfer that takes the id out of the detail of any rejection
_create_single_vendor_AnyCode(st, v, queried, result) ==
    LET vendor_name == _get_display_name(v)
        f == _find_existing_vendor(st, vendor_name, queried)
    IN  IF f.found # None
        THEN [ok |-> TRUE, st |-> SetMapping(f.st, "Vendor", v.Id, f.found[1].Id)]
        ELSE LET new == _copy_vendor_attributes(f.st, v)
                 after == Raised(Save(f.st, "Vendor", v.Id, new, result.kind), result)
                 created == Saved(f.st, new)
             IN  CASE result.kind = "ok" ->
                        [ok |-> TRUE,
                         st |-> SetExisting(
                                    SetExisting(
                                        SetMapping(after, "Vendor", v.Id, created.Id),
                                        "Vendor", vendor_name, created),
                                    "Vendor", created.Id, created)]
                   [] result.kind = "qb_error" /\ result.detail # None ->
                        [ok |-> TRUE,
                         st |-> SetMapping(after, "Vendor", v.Id, result.detail[1])]
                   [] OTHER -> [ok |-> FALSE, st |-> after]

\* VendorTransfer._create_single_vendor: [ok, st]
_create_single_vendor(st, v, queried, result) ==
    LET vendor_name == _get_display_name(v)
        f == _find_existing_vendor(st, vendor_name, queried)
    IN  IF f.found # None
        THEN [ok |-> TRUE, st |-> SetMapping(f.st, "Vendor", v.Id, f.found[1].Id)]
        ELSE LET new == _copy_vendor_attributes(f.st, v)
                 after == Raised(Save(f.st, "Vendor", v.Id, new, result.kind), result)
                 created == Saved(f.st, new)
             IN  CASE result.kind = "ok" ->
                        [ok |-> TRUE,
                         st |-> SetExisting(
                                    SetExisting(
                                        SetMapping(after, "Vendor", v.Id, created.Id),
                                        "Vendor", vendor_name, created),
                                    "Vendor", created.Id, created)]
                   [] result.kind = "qb_error" /\ result.error_code = <<"6240">>
                      /\ result.detail # None ->
                        [ok |-> TRUE,
                         st |-> SetMapping(after, "Vendor", v.Id, result.detail[1])]
                   [] OTHER -> [ok |-> FALSE, st |-> after]

-----------------------------------------------------------------------------
(* main() and the five plain transfers *)

\* QuickBooksClient.__init__ / <Type>Transfer.__init__: a fresh object
InitKeys(T) ==
    IF T = "JournalEntry" THEN {"JournalEntry", "Account", "Class", "Employee"} ELSE {T}

\* main(): construct the next transfer object and call its transfer method
StartTransfer ==
    /\ pc = "main" /\ plan # <<>>
    /\ cur' = Head(plan)
    /\ plan' = Tail(plan)
    /\ passNo' = passNo + 1
    /\ id_mapping' = [k \in InitKeys(Head(plan)) |-> EmptyMap]
    /\ existing' = [k \in AllTypes |-> EmptyMap]
    /\ source_classes' = EmptyMap
    /\ queue' = <<>> /\ idx' = 1
    /\ success_count' = 0 /\ skipped_count' = 0
    /\ update_count' = 0 /\ create_count' = 0
    /\ pc' = "load_target"
    /\ catalog_loaded' = TRUE
    /\ UNCHANGED <<walk, mapping_file, source, target, nextId, faults, calls, ends>>

\* an API call may fail; the model injects at most MaxFaults failures per run
CanFail(n) == faults + n <= MaxFaults
Cost(ok) == IF ok THEN 0 ELSE 1

\* transfer_<type>(): self.existing_<type> = self._get_existing_<type>()
LoadTarget ==
    /\ pc = "load_target" /\ cur \in PlainTypes
    /\ \E fetched \in BOOLEAN :
         /\ CanFail(Cost(fetched))
         /\ faults' = faults + Cost(fetched)
         /\ existing' = [existing EXCEPT ![cur] = _get_existing(cur, target[cur], fetched)]
         /\ catalog_loaded' = fetched
    /\ pc' = "load_source"
    /\ UNCHANGED <<walk, mapping_file, source, target, nextId, plan, passNo, cur, id_mapping,
                   source_classes, queue, idx, success_count, skipped_count,
                   update_count, create_count, calls, ends>>

\* transfer_<type>(): <Type>.all(qb=self.source_client), filter, order
LoadSource ==
    /\ pc = "load_source" /\ cur \in PlainTypes
    /\ queue' = TransferSet(cur, source[cur])
    /\ idx' = 1
    /\ pc' = "loop"
    /\ UNCHANGED <<walk, mapping_file, catalog_loaded, source, target, nextId, plan, passNo, cur, id_mapping, existing,
                   source_classes, success_count, skipped_count,
                   update_count, create_count, faults, calls, ends>>

\* a transfer_<type>() that logs the failure of the source fetch and returns
SourceFetchFails_Swallowed ==
    /\ pc = "load_source"
    /\ pc' = "main"
    /\ UNCHANGED <<walk, mapping_file, catalog_loaded, source, target, nextId, plan, passNo, cur, id_mapping, existing,
                   source_classes, queue, idx, success_count, skipped_count,
                   update_count, create_count, faults, calls, ends>>

\* <Type>.all(qb=self.source_client) raises: the except clause of
\* transfer_<type>() logs and re-raises, which ends main()
SourceFetchFails ==
    /\ pc = "load_source"
    /\ pc' = "aborted"
    /\ UNCHANGED <<walk, mapping_file, catalog_loaded, source, target, nextId, plan, passNo, cur, id_mapping, existing,
                   source_classes, queue, idx, success_count, skipped_count,
                   update_count, create_count, faults, calls, ends>>

Results == {Ok, QbError(<<"6000">>, None), OtherError}

Commit(st) ==
    /\ target' = st.target
    /\ nextId' = st.nextId
    /\ id_mapping' = st.id_mapping
    /\ existing' = st.existing
    /\ calls' = st.calls

\* one iteration of the "for <record> in <records>" loop of transfer_accounts,
\* transfer_employees, transfer_customers, transfer_classes
ProcessPlain(T) ==
    /\ pc = "loop" /\ cur = T /\ idx <= Len(queue)
    /\ LET r == queue[idx] IN
       IF Has(existing[T], LookupKey(T, r))
       THEN /\ skipped_count' = skipped_count + 1
            /\ success_count' = success_count + 1
            /\ UNCHANGED <<target, nextId, id_mapping, existing, calls, faults>>
       ELSE \E result \in Results :
              LET out == _create_single(T, Self, r, result) IN
              /\ CanFail(Cost(result = Ok))
              /\ faults' = faults + Cost(result = Ok)
              /\ success_count' = success_count + (IF out.ok THEN 1 ELSE 0)
              /\ skipped_count' = skipped_count
              /\ Commit(out.st)
    /\ idx' = idx + 1
    /\ UNCHANGED <<walk, mapping_file, catalog_loaded, source, plan, passNo, pc, cur, source_classes, queue,
                   update_count, create_count, ends>>

transfer_accounts_step == ProcessPlain("Account")
transfer_employees_step == ProcessPlain("Employee")
transfer_customers_step == ProcessPlain("Customer")
transfer_classes_step == ProcessPlain("Class")

\* the ids a 6240 error detail may name
DetailIds == {IdStr(1)}

VendorResults ==
    Results \cup {QbError(<<"6240">>, None)}
            \cup {QbError(c, Some(d)) : c \in {<<"6240">>, <<"6000">>}, d \in DetailIds}

\* one iteration of the loop of transfer_vendors; q1 and q2 say whether the
\* direct queries of the two _find_existing_vendor calls go through
transfer_vendors_step ==
    /\ pc = "loop" /\ cur = "Vendor" /\ idx <= Len(queue)
    /\ \E q1 \in BOOLEAN :
         LET v == queue[idx]
             f == _find_existing_vendor(Self, _get_display_name(v), q1)
         IN  IF f.found # None
             THEN /\ q1
                  /\ skipped_count' = skipped_count + 1
                  /\ success_count' = success_count + 1
                  /\ faults' = faults
                  /\ Commit(f.st)
             ELSE \E q2 \in BOOLEAN, result \in VendorResults :
                    LET out == _create_single_vendor(f.st, v, q2, result)
                        cost == Cost(q1) + Cost(q2) + Cost(result = Ok)
                    IN  /\ q1 => q2
                        /\ CanFail(cost)
                        /\ faults' = faults + cost
                        /\ success_count' = success_count + (IF out.ok THEN 1 ELSE 0)
                        /\ skipped_count' = skipped_count
                        /\ Commit(out.st)
    /\ idx' = idx + 1
    /\ UNCHANGED <<walk, mapping_file, catalog_loaded, source, plan, passNo, pc, cur, source_classes, queue,
                   update_count, create_count, ends>>

\* the "=== Transfer Summary ===" block; transfer_<type>() returns to main()
Summary ==
    /\ pc = "loop" /\ idx > Len(queue)
    /\ ends' = Append(ends, [pass |-> passNo, type |-> cur, id_mapping |-> id_mapping,
                             processed |-> Len(queue), skipped |-> skipped_count,
                             created |-> IF cur = "JournalEntry" THEN create_count
                                         ELSE success_count - skipped_count,
                             updated |-> update_count,
                             successful |-> success_count])
    /\ pc' = "main"
    /\ UNCHANGED <<walk, mapping_file, catalog_loaded, source, target, nextId, plan, passNo, cur, id_mapping, existing,
                   source_classes, queue, idx, success_count, skipped_count,
                   update_count, create_count, faults, calls>>

-----------------------------------------------------------------------------
(* AccountTransfer._sort_accounts_by_hierarchy *)

\* account_dict = {account.Id: account for account in accounts}
AccountDict(accounts) ==
    [id \in {accounts[k].Id : k \in 1..Len(accounts)} |->
        accounts[CHOOSE k \in 1..Len(accounts) :
                    /\ accounts[k].Id = id
                    /\ \A j \in 1..Len(accounts) : accounts[j].Id = id => j <= k]]

\* get_account_depth(account) entered for the i-th account of the list
EnterDepth(accounts, i, keys) ==
    [accounts |-> accounts, i |-> i, keys |-> keys, depth |-> 0,
     current |-> IF i <= Len(accounts) THEN Some(accounts[i]) ELSE None,
     sorted |-> None]

\* one test of the condition of the while loop of get_account_depth, and
\* the iteration or the return that follows it
get_account_depth_step ==
    /\ walk # None /\ walk[1].current # None
    /\ walk[1].depth < MaxDepth
    /\ LET w == walk[1]
           current == w.current[1]
           account_dict == AccountDict(w.accounts)
       IN  IF current.ParentRef # None /\ Has(account_dict, current.ParentRef[1].value)
           THEN walk' = Some([w EXCEPT !.current = Some(account_dict[current.ParentRef[1].value]),
                                        !.depth = @ + 1])
           ELSE walk' = Some(EnterDepth(w.accounts, w.i + 1, Append(w.keys, w.depth)))
    /\ UNCHANGED <<mapping_file, catalog_loaded, source, target, nextId, plan, passNo, pc, cur,
                   id_mapping, existing, source_classes, queue, idx, success_count,
                   skipped_count, update_count, create_count, faults, calls, ends>>

\* return sorted(accounts, key=get_account_depth), every key computed
sorted_by_depth ==
    /\ walk # None /\ walk[1].current = None /\ walk[1].sorted = None
    /\ LET w == walk[1] IN
       walk' = Some([w EXCEPT !.sorted =
                        Some(SortByKey(w.accounts,
                                       [a \in Range(w.accounts) |->
                                          w.keys[CHOOSE k \in 1..Len(w.accounts) :
                                                    w.accounts[k] = a]]))])
    /\ UNCHANGED <<mapping_file, catalog_loaded, source, target, nextId, plan, passNo, pc, cur,
                   id_mapping, existing, source_classes, queue, idx, success_count,
                   skipped_count, update_count, create_count, faults, calls, ends>>

-----------------------------------------------------------------------------
(* The journal-entry transfer: catalogs *)

\* JournalEntryTransfer._get_journal_identifier
_get_journal_identifier(j) == Strip(j.TxnDate \o <<"_">> \o j.DocNumber)

\* f"{number}_{name}"
AccountKey(number, name) == number \o <<"_">> \o name

\* JournalEntryTransfer._get_existing_accounts: one loop iteration
JournalAccountStep(m, acc) ==
    LET number == Strip(acc.AcctNum)
        name == Strip(acc.Name)
    IN  Put(Put(m, AccountKey(number, name), acc), name, acc)

\* Python's parts[:i+1] joined, for i = 0 .. len(parts)-1, kept when the key is new
RECURSIVE PutPrefixes(_, _, _, _)
PutPrefixes(m, parts, i, cls) ==
    IF i > Len(parts) THEN m
    ELSE LET partial_name == Join(SubSeq(parts, 1, i), ":")
         IN  PutPrefixes(IF Has(m, partial_name) THEN m ELSE Put(m, partial_name, cls),
                         parts, i + 1, cls)

\* JournalEntryTransfer._get_existing_classes: one loop iteration
JournalClassStep(m, cls) ==
    LET name == Strip(cls.Name)
        fully_qualified_name == Strip(cls.FullyQualifiedName)
        byName == Put(m, name, cls)
    IN  IF fully_qualified_name # <<>>
        THEN PutPrefixes(Put(byName, fully_qualified_name, cls),
                         Split(fully_qualified_name, ":"), 1, cls)
        ELSE byName

\* JournalEntryTransfer._get_existing_employees: one loop iteration
JournalEmployeeStep(m, emp) ==
    LET name == Strip(Strip(emp.GivenName) \o <<" ">> \o Strip(emp.FamilyName))
    IN  IF name # <<>> THEN Put(m, name, emp) ELSE m

\* JournalEntryTransfer._get_existing_vendors: one loop iteration
JournalVendorStep(m, vendor) ==
    LET name == Strip(vendor.DisplayName)
    IN  IF name # <<>> THEN Put(m, name, vendor) ELSE m

\* JournalEntryTransfer._get_source_classes: one loop iteration
SourceClassStep(m, cls) ==
    Put(m, cls.Id, [Name |-> Strip(cls.Name),
                    FullyQualifiedName |-> Strip(cls.FullyQualifiedName),
                    Id |-> cls.Id])

JournalStep(m, je) == Put(m, _get_journal_identifier(je), je)

\* one iteration of the loop of the loader of catalog c
JournalCatalogStep(c, m, r) ==
    CASE c = "Account" -> JournalAccountStep(m, r)
      [] c = "Class" -> JournalClassStep(m, r)
      [] c = "Employee" -> JournalEmployeeStep(m, r)
      [] c = "Vendor" -> JournalVendorStep(m, r)
      [] c = "JournalEntry" -> JournalStep(m, r)
      [] c = "SourceClass" -> SourceClassStep(m, r)

\* the "for <record> in <records>" loop of a loader
RECURSIVE BuildJournalCatalog(_, _, _)
BuildJournalCatalog(c, recs, m) ==
    IF recs = <<>> THEN m
    ELSE BuildJournalCatalog(c, Tail(recs), JournalCatalogStep(c, m, Head(recs)))

\* the "self.id_mapping[<type>][source_id] = <record>.Id" line of a loader
RECURSIVE SelfMap(_, _)
SelfMap(recs, m) ==
    IF recs = <<>> THEN m ELSE SelfMap(Tail(recs), Put(m, Head(recs).Id, Head(recs).Id))

\* the loader of vendors writes self.id_mapping['Vendor'], a key that
\* JournalEntryTransfer.__init__ never creates: the first vendor with a name
\* raises KeyError, and the except clause returns {}
VendorLoaderRaises(idm, vendors) ==
    /\ "Vendor" \notin DOMAIN idm
    /\ \E v \in Range(vendors) : Strip(v.DisplayName) # <<>>

\* the six loaders transfer_journals() calls first, in its order; ok[c] says
\* whether the fetch of catalog c went through
LoadJournalCatalogs(st, ok) ==
    LET accounts == st.target["Account"]
        classes == st.target["Class"]
        employees == st.target["Employee"]
        vendors == st.target["Vendor"]
        vendorsOk == ok["Vendor"] /\ ~VendorLoaderRaises(st.id_mapping, vendors)
        idm1 == IF ok["Account"]
                THEN [st.id_mapping EXCEPT !["Account"] = SelfMap(accounts, @)]
                ELSE st.id_mapping
        idm2 == IF ok["Class"] THEN [idm1 EXCEPT !["Class"] = SelfMap(classes, @)] ELSE idm1
        idm3 == IF ok["Employee"]
                THEN [idm2 EXCEPT !["Employee"] =
                        SelfMap(SelectSeq(employees,
                                    LAMBDA e : Strip(Strip(e.GivenName) \o <<" ">>
                                                     \o Strip(e.FamilyName)) # <<>>), @)]
                ELSE idm2
        idm4 == IF vendorsOk /\ "Vendor" \in DOMAIN idm3
                THEN [idm3 EXCEPT !["Vendor"] =
                        SelfMap(SelectSeq(vendors, LAMBDA v : Strip(v.DisplayName) # <<>>), @)]
                ELSE idm3
    IN  [st EXCEPT
           !.id_mapping = idm4,
           !.existing =
              [k \in AllTypes |->
                 IF k = "Customer" \/ ~ok[k] \/ (k = "Vendor" /\ ~vendorsOk)
                 THEN EmptyMap
                 ELSE BuildJournalCatalog(k, st.target[k], EmptyMap)]]

\* self.source_classes = self._get_source_classes()
_get_source_classes(src, fetched) ==
    IF fetched THEN BuildJournalCatalog("SourceClass", src["Class"], EmptyMap) ELSE EmptyMap

-----------------------------------------------------------------------------
(* The journal-entry transfer: reference mappers *)

\* <Type>.get(id, qb=self.source_client) / get_single_object: None when the
\* source has no such record (the call raises)
SourceGet(src, T, id) ==
    LET hits == {r \in Range(src[T]) : r.Id = id}
    IN  IF hits = {} THEN None ELSE Some(CHOOSE r \in hits : TRUE)

Ref(value, name) == [value |-> value, name |-> name]


\* a mapper without the name-only fallback
_map_account_reference_KeyOnly(st, account_ref, source_account) ==
    LET account_key == AccountKey(Strip(source_account.AcctNum), Strip(account_ref.name))
        target_account == Get(st.existing["Account"], account_key)
    IN  IF target_account # None
        THEN Some(Ref(target_account[1].Id, target_account[1].Name))
        ELSE None

\* JournalEntryTransfer._map_account_reference (source_account already fetched)
_map_account_reference(st, account_ref, source_account) ==
    LET account_name == Strip(account_ref.name)
        account_number == Strip(source_account.AcctNum)
        account_key == AccountKey(account_number, account_name)
        byKey == Get(st.existing["Account"], account_key)
        target_account == IF byKey # None THEN byKey
                          ELSE Get(st.existing["Account"], account_name)
    IN  IF target_account # None
        THEN Some(Ref(target_account[1].Id, target_account[1].Name))
        ELSE None

AppendNew(names, n) == IF n # <<>> /\ n \notin Range(names) THEN Append(names, n) ELSE names

\* the "for i in range(len(parts)-1, -1, -1)" loop of _map_class_reference;
\* i is Python's index
RECURSIVE PartialNames(_, _, _)
PartialNames(names, parts, i) ==
    IF i < 0 THEN names
    ELSE LET lo == IF i - 1 > 0 THEN i - 1 ELSE 0
             partial_name == Join(SubSeq(parts, lo + 1, i + 1), ":")
         IN  PartialNames(AppendNew(names, partial_name), parts, i - 1)

\* a mapper that tries the path names only: neither the last segment nor the
\* simple name
ClassNamesToTry_PathsOnly(source_class) ==
    LET fully_qualified_name == Strip(source_class.FullyQualifiedName)
        parts == Split(fully_qualified_name, ":")
    IN  IF fully_qualified_name # <<>>
        THEN SelectSeq(PartialNames(<<fully_qualified_name>>, parts, Len(parts) - 1),
                       LAMBDA n : n # Strip(Last(parts)))
        ELSE <<>>

\* the names_to_try list of _map_class_reference
ClassNamesToTry(source_class) ==
    LET fully_qualified_name == Strip(source_class.FullyQualifiedName)
        parts == Split(fully_qualified_name, ":")
        fromPath == IF fully_qualified_name # <<>>
                    THEN PartialNames(<<Strip(Last(parts)), fully_qualified_name>>,
                                      parts, Len(parts) - 1)
                    ELSE <<>>
    IN  AppendNew(fromPath, Strip(source_class.Name))

\* the first name of the list that is a key of the catalog
FirstHit(names, catalog) ==
    LET hits == {k \in 1..Len(names) : Has(catalog, names[k])}
    IN  IF hits = {} THEN None
        ELSE Some(names[CHOOSE k \in hits : \A h \in hits : k <= h])

\* JournalEntryTransfer._map_class_reference
_map_class_reference(st, cache, class_ref) ==
    IF ~Has(cache, class_ref.value) THEN None
    ELSE LET hit == FirstHit(ClassNamesToTry(cache[class_ref.value]), st.existing["Class"])
         IN  IF hit = None THEN None
             ELSE Some(Ref(st.existing["Class"][hit[1]].Id, st.existing["Class"][hit[1]].Name))

\* JournalEntryTransfer._map_employee_reference; source_employee is None when
\* Employee.get raised
_map_employee_reference(st, employee_ref, source_employee) ==
    IF source_employee = None THEN None
    ELSE LET e == source_employee[1]
             full_name == Strip(Strip(e.GivenName) \o <<" ">> \o Strip(e.FamilyName))
             names_to_try == SelectSeq(<<full_name, Strip(e.DisplayName),
                                         Strip(employee_ref.name)>>,
                                       LAMBDA n : n # <<>>)
             hit == FirstHit(names_to_try, st.existing["Employee"])
         IN  IF hit = None THEN None
             ELSE Some(Ref(st.existing["Employee"][hit[1]].Id, hit[1]))

\* JournalEntryTransfer._map_vendor_reference; source_vendor is None when
\* Vendor.get raised
_map_vendor_reference(st, vendor_ref, source_vendor) ==
    IF source_vendor = None THEN None
    ELSE LET display_name == Strip(source_vendor[1].DisplayName)
         IN  IF Has(st.existing["Vendor"], display_name)
             THEN Some(Ref(st.existing["Vendor"][display_name].Id, display_name))
             ELSE None

\* a mapper that takes an entity of any other type for an employee
_map_entity_reference_AnyType(st, src, entity, got) ==
    IF entity.Type = None \/ entity.EntityRef = None THEN None
    ELSE LET ref == entity.EntityRef[1]
             type == entity.Type[1]
             new_ref ==
                CASE type = "Vendor" ->
                       _map_vendor_reference(st, ref,
                           IF got THEN SourceGet(src, "Vendor", ref.value) ELSE None)
                  [] OTHER ->
                       _map_employee_reference(st, ref,
                           IF got THEN SourceGet(src, "Employee", ref.value) ELSE None)
         IN  IF new_ref # None
             THEN Some([Type |-> entity.Type, EntityRef |-> new_ref])
             ELSE None

\* JournalEntryTransfer._map_entity_reference; got says whether the live
\* lookup of the source record goes through
_map_entity_reference(st, src, entity, got) ==
    IF entity.Type = None \/ entity.EntityRef = None THEN None
    ELSE LET ref == entity.EntityRef[1]
             type == entity.Type[1]
             new_ref ==
                CASE type = "Employee" ->
                       _map_employee_reference(st, ref,
                           IF got THEN SourceGet(src, "Employee", ref.value) ELSE None)
                  [] type = "Vendor" ->
                       _map_vendor_reference(st, ref,
                           IF got THEN SourceGet(src, "Vendor", ref.value) ELSE None)
                  [] OTHER -> None
         IN  IF new_ref # None
             THEN Some([Type |-> entity.Type, EntityRef |-> new_ref])
             ELSE None

-----------------------------------------------------------------------------
(* The journal-entry transfer: copying and saving an entry *)

\* a fresh JournalEntryLine()
NewLine == [Amount |-> 0, JournalEntryLineDetail |-> None]

\* a line copy for which a class that cannot be mapped is as fatal as an account
LineOutcome_ClassRequired(basic, source_detail, posting_type, source_account, new_account_ref, new_class_ref, new_entity) ==
    IF source_detail.AccountRef # None /\ source_account = None
    THEN [raised |-> TRUE, ok |-> FALSE, line |-> basic]
    ELSE IF \/ source_detail.AccountRef # None /\ new_account_ref = None
            \/ source_detail.ClassRef # None /\ new_class_ref = None
    THEN [raised |-> FALSE, ok |-> FALSE, line |-> basic]
    ELSE [raised |-> FALSE, ok |-> TRUE,
          line |-> [basic EXCEPT !.JournalEntryLineDetail =
                      Some([PostingType |-> posting_type,
                            AccountRef |-> new_account_ref,
                            ClassRef |-> new_class_ref,
                            Entity |-> new_entity,
                            TaxCodeRef |-> source_detail.TaxCodeRef])]]

\* the tail of _copy_journal_line_attributes, once the references are mapped:
\* [raised, ok, line]. raised: the live lookup of the source account raised;
\* ok: the return value
LineOutcome(basic, source_detail, posting_type, source_account, new_account_ref, new_class_ref, new_entity) ==
    IF source_detail.AccountRef # None /\ source_account = None
    THEN [raised |-> TRUE, ok |-> FALSE, line |-> basic]
    ELSE IF source_detail.AccountRef # None /\ new_account_ref = None
    THEN [raised |-> FALSE, ok |-> FALSE, line |-> basic]
    ELSE [raised |-> FALSE, ok |-> TRUE,
          line |-> [basic EXCEPT !.JournalEntryLineDetail =
                      Some([PostingType |-> posting_type,
                            AccountRef |-> new_account_ref,
                            ClassRef |-> new_class_ref,
                            Entity |-> new_entity,
                            TaxCodeRef |-> source_detail.TaxCodeRef])]]

\* the "Map AccountRef" block, given what get_single_object returned
MapAccountOf(st, source_detail, source_account) ==
    IF source_account = None THEN None
    ELSE _map_account_reference(st, source_detail.AccountRef[1], source_account[1])

\* the "if source_detail:" block of _copy_journal_line_attributes
CopyDetail(st, src, cache, source_line, source_detail, source_account, entityGot) ==
    LineOutcome([NewLine EXCEPT !.Amount = source_line.Amount],
                source_detail,
                IF source_detail.PostingType # "absent" THEN source_detail.PostingType
                ELSE IF source_line.Amount >= 0 THEN "Debit" ELSE "Credit",
                source_account,
                MapAccountOf(st, source_detail, source_account),
                IF source_detail.ClassRef = None THEN None
                ELSE _map_class_reference(st, cache, source_detail.ClassRef[1]),
                IF source_detail.Entity = None THEN None
                ELSE _map_entity_reference(st, src, source_detail.Entity[1], entityGot))

\* JournalEntryTransfer._copy_journal_line_attributes; accountGot and
\* entityGot say whether the live lookups of the source records go through
_copy_journal_line_attributes(st, src, cache, source_line, accountGot, entityGot) ==
    IF source_line.JournalEntryLineDetail = None
    THEN [raised |-> FALSE, ok |-> TRUE,
          line |-> [NewLine EXCEPT !.Amount = source_line.Amount]]
    ELSE CopyDetail(st, src, cache, source_line, source_line.JournalEntryLineDetail[1],
                    IF source_line.JournalEntryLineDetail[1].AccountRef = None \/ ~accountGot
                    THEN None
                    ELSE SourceGet(src, "Account",
                                   source_line.JournalEntryLineDetail[1].AccountRef[1].value),
                    entityGot)

\* the "for line in source_journal.Line" loop of _copy_journal_attributes:
\* [raised, lines]; failAt is the position of the line whose source-account
\* lookup raises (0: none), softAt that of the line whose Employee.get /
\* Vendor.get raises (0: none). The value _copy_journal_line_attributes
\* returns is not looked at: the line is appended whatever it is
RECURSIVE CopyLines(_, _, _, _, _, _, _, _)
\* a loop that leaves out the line whose copy returned False
AppendCopied_DropsFailed(st, src, cache, lines, k, failAt, softAt, acc, r) ==
    IF r.raised THEN [raised |-> TRUE, lines |-> acc]
    ELSE CopyLines(st, src, cache, lines, k + 1, failAt, softAt,
                   IF r.ok THEN Append(acc, r.line) ELSE acc)

AppendCopied(st, src, cache, lines, k, failAt, softAt, acc, r) ==
    IF r.raised THEN [raised |-> TRUE, lines |-> acc]
    ELSE CopyLines(st, src, cache, lines, k + 1, failAt, softAt, Append(acc, r.line))

CopyLines(st, src, cache, lines, k, failAt, softAt, acc) ==
    IF k > Len(lines) THEN [raised |-> FALSE, lines |-> acc]
    ELSE AppendCopied(st, src, cache, lines, k, failAt, softAt, acc,
                      _copy_journal_line_attributes(st, src, cache, lines[k],
                                                    k # failAt, k # softAt))

\* the "Handle Line items separately" block of _copy_journal_attributes
WithLines(source_journal, head, copied) ==
    IF source_journal.Line # <<>>
    THEN [raised |-> copied.raised, journal |-> [head EXCEPT !.Line = copied.lines]]
    ELSE [raised |-> FALSE, journal |-> head]

\* JournalEntryTransfer._copy_journal_attributes: [raised, journal]
_copy_journal_attributes(st, src, cache, source_journal, new_journal, failAt, softAt) ==
    WithLines(source_journal,
              [new_journal EXCEPT !.TxnDate = source_journal.TxnDate,
                                  !.DocNumber = source_journal.DocNumber],
              CopyLines(st, src, cache, source_journal.Line, 1, failAt, softAt, <<>>))

\* a fresh JournalEntry()
NewJournal == [Id |-> None, TxnDate |-> <<>>, DocNumber |-> <<>>, Line |-> <<>>]


\* a save that does not put the saved entry in the catalog of existing entries
SaveJournal_CatalogNotUpdated(aliased, journal, journal_id, copied, result) ==
    IF copied.raised THEN [ok |-> FALSE, st |-> aliased]
    ELSE IF result.kind = "ok"
    THEN [ok |-> TRUE,
          st |-> SetMapping(Save(aliased, "JournalEntry", journal.Id, copied.journal,
                                 result.kind),
                            "JournalEntry", journal.Id, Saved(aliased, copied.journal).Id)]
    ELSE [ok |-> FALSE,
          st |-> Save(aliased, "JournalEntry", journal.Id, copied.journal, result.kind)]

\* the part of _create_or_update_journal after the attributes are copied:
\* save, record the mapping, refresh the catalog; aliased is the object's state
\* with the copy already applied to the cached entry when it is an update
SaveJournal(aliased, journal, journal_id, copied, result) ==
    IF copied.raised THEN [ok |-> FALSE, st |-> aliased]
    ELSE IF result.kind = "ok"
    THEN [ok |-> TRUE,
          st |-> SetExisting(
                   SetMapping(Save(aliased, "JournalEntry", journal.Id, copied.journal,
                                   result.kind),
                              "JournalEntry", journal.Id, Saved(aliased, copied.journal).Id),
                   "JournalEntry", journal_id, Saved(aliased, copied.journal))]
    ELSE [ok |-> FALSE,
          st |-> Save(aliased, "JournalEntry", journal.Id, copied.journal, result.kind)]

\* an update works on the cached object itself: what is copied into it stays
\* in the catalog whether or not the save goes through
CopyInPlace(st, journal, journal_id, exists, copied, result) ==
    SaveJournal(IF exists THEN SetExisting(st, "JournalEntry", journal_id, copied.journal)
                ELSE st,
                journal, journal_id, copied, result)

\* JournalEntryTransfer._create_or_update_journal: [ok, st]
_create_or_update_journal(st, src, cache, journal, result, failAt, softAt) ==
    CopyInPlace(st, journal, _get_journal_identifier(journal),
                Has(st.existing["JournalEntry"], _get_journal_identifier(journal)),
                _copy_journal_attributes(
                    st, src, cache, journal,
                    IF Has(st.existing["JournalEntry"], _get_journal_identifier(journal))
                    THEN st.existing["JournalEntry"][_get_journal_identifier(journal)]
                    ELSE NewJournal,
                    failAt, softAt),
                result)

\* transfer_journals(): the loaders of the target catalogs and the source cache
LoadJournalTarget ==
    /\ pc = "load_target" /\ cur = "JournalEntry"
    /\ \E ok \in [AllTypes \ {"Customer"} -> BOOLEAN], cached \in BOOLEAN :
         LET cost == Cardinality({k \in DOMAIN ok : ~ok[k]}) + Cost(cached)
             st == LoadJournalCatalogs(Self, ok)
         IN  /\ CanFail(cost)
             /\ faults' = faults + cost
             /\ existing' = st.existing
             /\ catalog_loaded' = ok["JournalEntry"]
             /\ id_mapping' = st.id_mapping
             /\ source_classes' = _get_source_classes(source, cached)
    /\ pc' = "load_source"
    /\ UNCHANGED <<walk, mapping_file, source, target, nextId, plan, passNo, cur, queue, idx,
                   success_count, skipped_count, update_count, create_count,
                   calls, ends>>

\* transfer_journals(): JournalEntry.all(qb=self.source_client)
LoadJournalSource ==
    /\ pc = "load_source" /\ cur = "JournalEntry"
    /\ queue' = source["JournalEntry"]
    /\ idx' = 1
    /\ pc' = "loop"
    /\ UNCHANGED <<walk, mapping_file, catalog_loaded, source, target, nextId, plan, passNo, cur, id_mapping, existing,
                   source_classes, success_count, skipped_count,
                   update_count, create_count, faults, calls, ends>>

\* the bookkeeping of one iteration, given what _create_or_update_journal did
CountJournal(exists, out, cost) ==
    /\ CanFail(cost)
    /\ faults' = faults + cost
    /\ success_count' = success_count + (IF out.ok THEN 1 ELSE 0)
    /\ update_count' = update_count + (IF out.ok /\ exists THEN 1 ELSE 0)
    /\ create_count' = create_count + (IF out.ok /\ ~exists THEN 1 ELSE 0)
    /\ Commit(out.st)

\* the lines for which _map_account_reference calls get_single_object
AccountLookups(lines) ==
    {k \in 1..Len(lines) :
        /\ lines[k].JournalEntryLineDetail # None
        /\ lines[k].JournalEntryLineDetail[1].AccountRef # None}

\* the lines for which _map_entity_reference calls Employee.get or Vendor.get
EntityLookups(lines) ==
    {k \in 1..Len(lines) :
        /\ lines[k].JournalEntryLineDetail # None
        /\ lines[k].JournalEntryLineDetail[1].Entity # None
        /\ lines[k].JournalEntryLineDetail[1].Entity[1].EntityRef # None
        /\ lines[k].JournalEntryLineDetail[1].Entity[1].Type
              \in {Some("Employee"), Some("Vendor")}}

\* one iteration of the loop of transfer_journals; failAt and softAt pick the
\* line whose live source lookup fails (0: none)
transfer_journals_step ==
    /\ pc = "loop" /\ cur = "JournalEntry" /\ idx <= Len(queue)
    /\ \E result \in Results, failAt \in {0} \cup AccountLookups(queue[idx].Line),
          softAt \in {0} \cup EntityLookups(queue[idx].Line) :
         CountJournal(Has(existing["JournalEntry"], _get_journal_identifier(queue[idx])),
                      _create_or_update_journal(Self, source, source_classes, queue[idx],
                                                result, failAt, softAt),
                      Cost(result = Ok) + Cost(failAt = 0) + Cost(softAt = 0))
    /\ idx' = idx + 1
    /\ UNCHANGED <<walk, mapping_file, catalog_loaded, source, plan, passNo, pc, cur, source_classes, queue,
                   skipped_count, ends>>

-----------------------------------------------------------------------------
(* The records the tenants are populated with *)

Cash == <<"Cash">>
Petty == <<"Petty">>
AccountsPayable == <<"Accounts", " ", "Payable">>

Account(id, name, num, active, parent) ==
    [Id |-> id, Name |-> name, AcctNum |-> num, Active |-> active, ParentRef |-> parent]

SourceAccounts ==
    {Account(<<"1">>, Cash, <<"10">>, a, None) : a \in {"true", "false", "absent"}}
    \cup {Account(<<"2">>, Petty, <<>>, "true", Some([value |-> <<"1">>, name |-> Cash]))}
    \cup {Account(<<"3">>, AccountsPayable, <<"20">>, a, None) : a \in {"true", "false"}}
    \cup {Account(<<"3">>, AccountsPayable \o <<" ", "(A/P)">>, <<"20">>, "true", None)}

TargetAccounts ==
    {Account(None, Cash, <<"10">>, "true", None),
     Account(None, Petty, <<>>, "true", None),
     Account(None, AccountsPayable, <<"20">>, "true", None)}

Employee(id, given, family, active) ==
    [Id |-> id, GivenName |-> given, FamilyName |-> family,
     DisplayName |-> Strip(given \o <<" ">> \o family), Active |-> active]

SourceEmployees ==
    {Employee(<<"1">>, <<"Ann">>, <<"Lee">>, a) : a \in {"true", "false", "absent"}}
    \cup {Employee(<<"2">>, <<"Bob">>, <<>>, "true"),
          Employee(<<"3">>, <<"Ann">>, <<"Lee">>, "true")}

TargetEmployees ==
    {Employee(None, <<"Ann">>, <<"Lee">>, "true"), Employee(None, <<"Bob">>, <<>>, "true")}

Named(id, name, active) == [Id |-> id, DisplayName |-> name, Active |-> active]

SourceCustomers ==
    {Named(<<"1">>, <<"Acme">>, a) : a \in {"true", "false", "absent"}}
    \cup {Named(<<"2">>, <<" ", "Acme">>, "true"), Named(<<"3">>, <<"Zed">>, "true")}

TargetCustomers == {Named(None, <<"Acme">>, "true"), Named(None, <<"Zed">>, "true")}

SourceVendors ==
    {Named(<<"1">>, <<"Vend">>, a) : a \in {"true", "false", "absent"}}
    \cup {Named(<<"2">>, <<"Wick">>, "true"), Named(<<"3">>, <<"1">>, "true")}

TargetVendors == {Named(None, <<"Vend">>, "true"), Named(None, <<"Wick">>, "true")}

\* a class at a path of names: its Name is the last one
Class(id, path, active) ==
    [Id |-> id, Name |-> Last(path), FullyQualifiedName |-> Join(path, ":"),
     Active |-> active, ParentRef |-> None]

pA == << <<"A">> >>
pAB == << <<"A">>, <<"B">> >>
pABC == << <<"A">>, <<"B">>, <<"C">> >>
pXA == << <<"X">>, <<"A">> >>
pB == << <<"B">> >>

SourceClasses ==
    {Class(<<"1">>, pA, a) : a \in {"true", "false"}}
    \cup {Class(<<"2">>, pAB, "true"), Class(<<"3">>, pABC, "true"),
          Class(<<"4">>, pB, "true")}

TargetClasses ==
    {Class(None, pA, "true"), Class(None, pAB, "true"), Class(None, pXA, "true")}

SourceRecords(T) ==
    CASE T = "Account" -> SourceAccounts
      [] T = "Employee" -> SourceEmployees
      [] T = "Customer" -> SourceCustomers
      [] T = "Vendor" -> SourceVendors
      [] T = "Class" -> SourceClasses

TargetRecords(T) ==
    CASE T = "Account" -> TargetAccounts
      [] T = "Employee" -> TargetEmployees
      [] T = "Customer" -> TargetCustomers
      [] T = "Vendor" -> TargetVendors
      [] T = "Class" -> TargetClasses

\* journal entries and their lines
Detail(posting, account, class, entity, tax) ==
    [PostingType |-> posting, AccountRef |-> account, ClassRef |-> class,
     Entity |-> entity, TaxCodeRef |-> tax]

Line(amount, detail) == [Amount |-> amount, JournalEntryLineDetail |-> detail]

Journal(id, date, doc, lines) ==
    [Id |-> id, TxnDate |-> date, DocNumber |-> doc, Line |-> lines]

Region == <<"Region">>
pRegion == << Region >>
pGlobal == << <<"Global">> >>
pGlobalRegion == << <<"Global">>, Region >>
pGlobalSpRegion == << <<"Global">>, <<" ">> \o Region >>
pXRegion == << <<"X">>, Region >>

JournalSourceAccounts ==
    <<Account(<<"1">>, Cash, <<"10">>, "true", None),
      Account(<<"2">>, Petty, <<>>, "true", None)>>

JournalTargetAccounts ==
    {<<Account(None, Cash, <<"30">>, "true", None)>>,
     <<Account(None, Petty, <<>>, "true", None),
       Account(None, Cash, <<"10">>, "true", None)>>}

JournalSourceClasses ==
    <<Class(<<"1">>, pGlobalRegion, "true"), Class(<<"2">>, pGlobal, "true"),
      Class(<<"3">>, pGlobalSpRegion, "true")>>

JournalTargetClasses ==
    {<<>>,
     <<Class(None, pRegion, "true")>>,
     <<Class(None, pGlobal, "true"), Class(None, pGlobalRegion, "true")>>,
     <<Class(None, pXRegion, "true"), Class(None, pRegion, "true")>>}

JournalSourceEmployees == <<Employee(<<"1">>, <<"Ann">>, <<"Lee">>, "true")>>
JournalSourceVendors == <<Named(<<"1">>, <<"Vend">>, "true")>>

CashRef == Some(Ref(<<"1">>, Cash))
PettyRef == Some(Ref(<<"2">>, Petty))
ClassRefTo(id, path) == Some(Ref(id, Last(path)))
EntityOf(type, id, name) == Some([Type |-> Some(type), EntityRef |-> Some(Ref(id, name))])

SourceLines ==
    {Line(5, Some(Detail("Debit", CashRef, None, None, None))),
     Line(0 - 5, Some(Detail("absent", PettyRef, ClassRefTo(<<"1">>, pGlobalRegion),
                             None, Some(<<"TAX">>)))),
     Line(7, Some(Detail("Credit", CashRef, ClassRefTo(<<"3">>, pGlobalSpRegion),
                         EntityOf("Employee", <<"1">>, <<"Ann", " ", "Lee">>), None))),
     Line(8, Some(Detail("Debit", CashRef, ClassRefTo(<<"9">>, pXRegion),
                         EntityOf("Vendor", <<"1">>, <<"Vend">>), None))),
     Line(3, None),
     Line(4, Some(Detail("Debit", None, ClassRefTo(<<"2">>, pGlobal),
                         EntityOf("Customer", <<"1">>, <<"Acme">>), None)))}

Date1 == <<"2024-01-01">>
Doc101 == <<"101">>

\* the line of the entry the target already holds
OldLine == Line(99, Some(Detail("Debit", Some(Ref(<<"1">>, Cash)), None, None, None)))

JournalTargetJournals == {<<>>, <<Journal(None, Date1, Doc101, <<OldLine>>)>>}

\* a second source entry with the key of the first
SecondJournal ==
    Journal(<<"2">>, Date1, Doc101, <<Line(6, Some(Detail("Debit", CashRef, None, None, None)))>>)

Distinct(s) == \A a, b \in 1..Len(s) : a # b => s[a] # s[b]

-----------------------------------------------------------------------------
(* Specifications *)

\* before main() has constructed a transfer object
Fresh ==
    /\ passNo = 0 /\ pc = "main" /\ cur = "none"
    /\ id_mapping = EmptyMap
    /\ existing = [k \in AllTypes |-> EmptyMap]
    /\ catalog_loaded = TRUE
    /\ source_classes = EmptyMap
    /\ queue = <<>> /\ idx = 1
    /\ success_count = 0 /\ skipped_count = 0
    /\ update_count = 0 /\ create_count = 0
    /\ faults = 0 /\ calls = <<>> /\ ends = <<>>

Idle == Fresh /\ mapping_file = None /\ walk = None

\* one plain transfer, run twice in succession
InitTwice ==
    \E T \in PlainTypes :
      \E s \in Lists(SourceRecords(T), MaxRecs) :
        \E t \in {x \in SeqsUpTo(TargetRecords(T), MaxTgt) : Distinct(x)} :
          /\ source = [k \in AllTypes |-> IF k = T THEN s ELSE <<>>]
          /\ target = [k \in AllTypes |-> IF k = T THEN AssignIds(t) ELSE <<>>]
          /\ nextId = Len(t) + 1
          /\ plan = <<T, T>>
          /\ Idle

NextTwice ==
    \/ StartTransfer
    \/ LoadTarget
    \/ LoadSource
    \/ SourceFetchFails
    \/ transfer_accounts_step
    \/ transfer_employees_step
    \/ transfer_customers_step
    \/ transfer_classes_step
    \/ transfer_vendors_step
    \/ Summary

SpecTwice == InitTwice /\ [][NextTwice]_vars

\* the journal-entry transfer alone, over tenants that already hold accounts
\* and classes, and employees and vendors when a line refers to one
InitJournal ==
    \E lines \in SeqsUpTo(SourceLines, MaxLines) :
      \E people \in {b \in BOOLEAN : b => EntityLookups(lines) # {}},
         second \in {b \in BOOLEAN : b => Len(lines) <= MaxLinesBeforeSecond},
         ta \in JournalTargetAccounts, tc \in JournalTargetClasses :
       \E tj \in {j \in JournalTargetJournals : second => j = <<>>} :
        /\ source = [k \in AllTypes |->
                       CASE k = "Account" -> JournalSourceAccounts
                         [] k = "Class" -> JournalSourceClasses
                         [] k = "Employee" -> JournalSourceEmployees
                         [] k = "Vendor" -> JournalSourceVendors
                         [] k = "JournalEntry" ->
                              <<Journal(<<"1">>, Date1, Doc101, lines)>>
                              \o (IF second THEN <<SecondJournal>> ELSE <<>>)
                         [] OTHER -> <<>>]
        /\ target = [k \in AllTypes |->
                       CASE k = "Account" -> AssignIds(ta)
                         [] k = "Class" -> AssignIds(tc)
                         [] k = "Employee" ->
                              IF people THEN AssignIds(JournalSourceEmployees) ELSE <<>>
                         [] k = "Vendor" ->
                              IF people THEN AssignIds(JournalSourceVendors) ELSE <<>>
                         [] k = "JournalEntry" -> AssignIds(tj)
                         [] OTHER -> <<>>]
        /\ nextId = Len(ta) + Len(tc) + Len(tj) + 2
        /\ plan = <<"JournalEntry">>
        /\ Idle

NextJournal ==
    \/ StartTransfer
    \/ LoadJournalTarget
    \/ LoadJournalSource
    \/ SourceFetchFails
    \/ transfer_journals_step
    \/ Summary

SpecJournal == InitJournal /\ [][NextJournal]_vars

\* the classes a target may return to the loaders of the journal transfer
CatalogClasses ==
    {Class(None, pRegion, "true"), Class(None, pXRegion, "true"),
     Class(None, pGlobal, "true"), Class(None, pGlobalRegion, "true")}

\* the journal transfer over a source without journal entries: its loaders run
\* over a target that returns its classes in any order
InitCatalog ==
    \E tc \in {x \in SeqsUpTo(CatalogClasses, MaxCatalogClasses) : Distinct(x)} :
        /\ source = [k \in AllTypes |->
                       IF k = "Class" THEN JournalSourceClasses ELSE <<>>]
        /\ target = [k \in AllTypes |-> IF k = "Class" THEN AssignIds(tc) ELSE <<>>]
        /\ nextId = Len(tc) + 1
        /\ plan = <<"JournalEntry">>
        /\ Idle

NextCatalog ==
    \/ StartTransfer
    \/ LoadJournalTarget
    \/ LoadJournalSource
    \/ SourceFetchFails
    \/ Summary

SpecCatalog == InitCatalog /\ [][NextCatalog]_vars

\* lines whose entity names a source vendor or employee, the name hint of the
\* reference being the record's own name or another one
EntityLines ==
    {Line(8, Some(Detail("Debit", CashRef, None,
                         EntityOf("Vendor", <<"1">>, <<"Vend">>), None))),
     Line(9, Some(Detail("Debit", CashRef, None,
                         EntityOf("Vendor", <<"1">>, <<"Wick">>), None))),
     Line(7, Some(Detail("Credit", CashRef, None,
                         EntityOf("Employee", <<"1">>, <<"Bob">>), None)))}

EntityTargetVendors ==
    {<<>>, <<Named(None, <<"Vend">>, "true")>>, <<Named(None, <<"Wick">>, "true")>>,
     <<Named(None, <<"Wick">>, "true"), Named(None, <<"Vend">>, "true")>>}

EntityTargetEmployees ==
    {<<>>, <<Employee(None, <<"Ann">>, <<"Lee">>, "true")>>,
     <<Employee(None, <<"Bob">>, <<>>, "true")>>}

\* the journal transfer over one entry of one line that names an entity
InitEntity ==
    \E line \in EntityLines, tv \in EntityTargetVendors, te \in EntityTargetEmployees :
        /\ source = [k \in AllTypes |->
                       CASE k = "Account" -> JournalSourceAccounts
                         [] k = "Employee" -> JournalSourceEmployees
                         [] k = "Vendor" -> JournalSourceVendors
                         [] k = "JournalEntry" -> <<Journal(<<"1">>, Date1, Doc101, <<line>>)>>
                         [] OTHER -> <<>>]
        /\ target = [k \in AllTypes |->
                       CASE k = "Account" ->
                              AssignIds(<<Account(None, Cash, <<"10">>, "true", None)>>)
                         [] k = "Employee" -> AssignIds(te)
                         [] k = "Vendor" -> AssignIds(tv)
                         [] OTHER -> <<>>]
        /\ nextId = 3
        /\ plan = <<"JournalEntry">>
        /\ Idle

NextEntity ==
    \/ StartTransfer
    \/ LoadJournalTarget
    \/ LoadJournalSource
    \/ SourceFetchFails
    \/ transfer_journals_step
    \/ Summary

SpecEntity == InitEntity /\ [][NextEntity]_vars

\* lines that refer to a class of the source
ClassLines ==
    {Line(5, Some(Detail("Debit", CashRef, ClassRefTo(<<"1">>, pGlobalRegion), None, None))),
     Line(6, Some(Detail("Debit", CashRef, ClassRefTo(<<"2">>, pGlobal), None, None))),
     Line(7, Some(Detail("Credit", CashRef, ClassRefTo(<<"3">>, pGlobalSpRegion), None, None)))}

\* the journal transfer over one entry of one line that names a class, the
\* target returning its classes in any order
InitClassRef ==
    \E line \in ClassLines,
       tc \in {x \in SeqsUpTo(CatalogClasses, MaxCatalogClasses) : Distinct(x)} :
        /\ source = [k \in AllTypes |->
                       CASE k = "Account" -> JournalSourceAccounts
                         [] k = "Class" -> JournalSourceClasses
                         [] k = "JournalEntry" -> <<Journal(<<"1">>, Date1, Doc101, <<line>>)>>
                         [] OTHER -> <<>>]
        /\ target = [k \in AllTypes |->
                       CASE k = "Account" ->
                              AssignIds(<<Account(None, Cash, <<"10">>, "true", None)>>)
                         [] k = "Class" -> AssignIds(tc)
                         [] OTHER -> <<>>]
        /\ nextId = Len(tc) + 2
        /\ plan = <<"JournalEntry">>
        /\ Idle

SpecClassRef == InitClassRef /\ [][NextJournal]_vars

\* the accounts a target may hold, one of them named like a number_name key
KeyLikeAccounts ==
    {Account(None, Cash, <<"10">>, "true", None),
     Account(None, Cash, <<"30">>, "true", None),
     Account(None, <<"10", "_", "Cash">>, <<>>, "true", None),
     Account(None, Petty, <<>>, "true", None)}

\* lines that refer to an account of the source
AccountLines ==
    {Line(5, Some(Detail("Debit", CashRef, None, None, None))),
     Line(6, Some(Detail("Credit", PettyRef, None, None, None)))}

\* the journal transfer over one entry of one line that names an account, the
\* target returning its accounts in any order
InitAccountRef ==
    \E line \in AccountLines,
       ta \in {x \in SeqsUpTo(KeyLikeAccounts, MaxCatalogAccounts) : Distinct(x)} :
        /\ source = [k \in AllTypes |->
                       CASE k = "Account" -> JournalSourceAccounts
                         [] k = "JournalEntry" -> <<Journal(<<"1">>, Date1, Doc101, <<line>>)>>
                         [] OTHER -> <<>>]
        /\ target = [k \in AllTypes |-> IF k = "Account" THEN AssignIds(ta) ELSE <<>>]
        /\ nextId = Len(ta) + 1
        /\ plan = <<"JournalEntry">>
        /\ Idle

SpecAccountRef == InitAccountRef /\ [][NextJournal]_vars

\* the file an earlier run would have left
MappingFiles == {None, Some([Account |-> Put(EmptyMap, <<"1">>, <<"7">>)])}

\* the account transfer run twice in succession, with or without a file
\* id_mapping.json in place
InitPersist ==
    \E ta \in {<<>>, <<Account(None, Petty, <<>>, "true", None)>>}, file \in MappingFiles :
        /\ source = [k \in AllTypes |-> IF k = "Account" THEN JournalSourceAccounts ELSE <<>>]
        /\ target = [k \in AllTypes |-> IF k = "Account" THEN AssignIds(ta) ELSE <<>>]
        /\ nextId = Len(ta) + 1
        /\ plan = <<"Account", "Account">>
        /\ mapping_file = file
        /\ walk = None
        /\ Fresh

NextPersist ==
    \/ StartTransfer
    \/ LoadTarget
    \/ LoadSource
    \/ SourceFetchFails
    \/ transfer_accounts_step
    \/ Summary

SpecPersist == InitPersist /\ [][NextPersist]_vars

\* n accounts with ids 1..n; par[k] is the number of the account the k-th one
\* names as its parent: 0 for none, n + 1 for an account not in the list
AccountsWithParents(n, par) ==
    [k \in 1..n |->
        Account(IdStr(k), <<"A">> \o IdStr(k), <<>>, "true",
                IF par[k] = 0 THEN None
                ELSE Some([value |-> IdStr(par[k]), name |-> <<"A">> \o IdStr(par[k])]))]

\* _sort_accounts_by_hierarchy called with a list of accounts whose ParentRef
\* links are any: chains, links out of the list, cycles
InitDepth ==
    \E n \in 1..MaxWalkAccounts :
      \E par \in [1..n -> 0..(n + 1)] :
        /\ source = [k \in AllTypes |->
                       IF k = "Account" THEN AccountsWithParents(n, par) ELSE <<>>]
        /\ target = [k \in AllTypes |-> <<>>]
        /\ nextId = 1
        /\ plan = <<>>
        /\ mapping_file = None
        /\ walk = Some(EnterDepth(AccountsWithParents(n, par), 1, <<>>))
        /\ Fresh

NextDepth ==
    \/ get_account_depth_step
    \/ sorted_by_depth

SpecDepth == InitDepth /\ [][NextDepth]_vars

\* entities _map_entity_reference has no mapper for: a type other than
\* Employee and Vendor, no Type, no EntityRef
UnsupportedEntities ==
    {EntityOf("Customer", <<"1">>, <<"Ann", " ", "Lee">>),
     Some([Type |-> None, EntityRef |-> Some(Ref(<<"1">>, <<"Ann", " ", "Lee">>))]),
     Some([Type |-> Some("Employee"), EntityRef |-> None])}

\* lines with an account, a class and such an entity
UnsupportedEntityLines ==
    {Line(5, Some(Detail("Debit", CashRef, ClassRefTo(<<"2">>, pGlobal), e, None))) :
        e \in UnsupportedEntities}

\* the journal transfer over one entry of one such line; the target may hold
\* the class and an employee with the name the entity carries
InitUnsupported ==
    \E line \in UnsupportedEntityLines,
       tc \in {<<>>, <<Class(None, pGlobal, "true")>>},
       te \in {<<>>, <<Employee(None, <<"Ann">>, <<"Lee">>, "true")>>} :
        /\ source = [k \in AllTypes |->
                       CASE k = "Account" -> JournalSourceAccounts
                         [] k = "Class" -> JournalSourceClasses
                         [] k = "Employee" -> JournalSourceEmployees
                         [] k = "JournalEntry" -> <<Journal(<<"1">>, Date1, Doc101, <<line>>)>>
                         [] OTHER -> <<>>]
        /\ target = [k \in AllTypes |->
                       CASE k = "Account" ->
                              AssignIds(<<Account(None, Cash, <<"10">>, "true", None)>>)
                         [] k = "Class" -> AssignIds(tc)
                         [] k = "Employee" -> AssignIds(te)
                         [] OTHER -> <<>>]
        /\ nextId = 3
        /\ plan = <<"JournalEntry">>
        /\ Idle

SpecUnsupported == InitUnsupported /\ [][NextJournal]_vars

\* main(): the six transfers in its order, each by an object of its own
Pipeline == <<"Account", "Employee", "Customer", "Class", "Vendor", "JournalEntry">>

Init ==
    \E lines \in SeqsUpTo(SourceLines, 1), customers \in {<<>>, <<Named(<<"1">>, <<"Acme">>, "true")>>},
       ta \in {<<>>, <<Account(None, Petty, <<>>, "true", None)>>} :
        /\ source = [k \in AllTypes |->
                       CASE k = "Account" -> JournalSourceAccounts
                         [] k = "Class" -> JournalSourceClasses
                         [] k = "Employee" -> JournalSourceEmployees
                         [] k = "Vendor" -> JournalSourceVendors
                         [] k = "Customer" -> customers
                         [] k = "JournalEntry" -> <<Journal(<<"1">>, Date1, Doc101, lines)>>]
        /\ target = [k \in AllTypes |-> IF k = "Account" THEN AssignIds(ta) ELSE <<>>]
        /\ nextId = Len(ta) + 1
        /\ plan = Pipeline
        /\ Idle

Next ==
    \/ StartTransfer
    \/ LoadTarget
    \/ LoadSource
    \/ SourceFetchFails
    \/ transfer_accounts_step
    \/ transfer_employees_step
    \/ transfer_customers_step
    \/ transfer_classes_step
    \/ transfer_vendors_step
    \/ LoadJournalTarget
    \/ LoadJournalSource
    \/ transfer_journals_step
    \/ Summary

Spec == Init /\ [][Next]_vars

-----------------------------------------------------------------------------
(* Properties of the plain transfers, checked under SpecTwice *)

\* the records the running (or a finished) transfer of type T loops over
Transferred(T) == Range(TransferSet(T, source[T]))

SavesOf(p) == {k \in 1..Len(calls) : calls[k].pass = p}
CreatedIn(p) == {k \in SavesOf(p) : calls[k].created /\ calls[k].result = "ok"}

\* the target records that were there before the first transfer started
InitialTarget(T) ==
    {t \in Range(target[T]) : \A k \in 1..Len(calls) : calls[k].id # t.Id}

\* C1 (as claimed): with no API failure in either run, the second run of a
\* plain transfer issues no create call at all: every record of the transfer
\* set is found in the freshly loaded target catalog and skipped.
C1_SecondRunCreatesNothing ==
    faults = 0 => SavesOf(2) = {}

\* C2 (as claimed): with no API failure in either run, the id_mapping held at
\* the end of the second run equals the id_mapping held at the end of the
\* first run.
C2_SecondRunSameMapping ==
    (faults = 0 /\ Len(ends) = 2) => ends[2].id_mapping = ends[1].id_mapping

\* C4 (as claimed): at the end of a transfer in which every record of the
\* transfer set was counted as successful, id_mapping[type] has an entry for
\* the id of each of them, whether it was skipped as existing or created.
C4_SuccessfulRecordsAreMapped ==
    \A n \in 1..Len(ends) :
        ends[n].successful = ends[n].processed =>
            \A r \in Transferred(ends[n].type) :
                r.Id \in DOMAIN ends[n].id_mapping[ends[n].type]

\* the path of the parent of a class
ParentPath(c) == Join(Front(Split(c.FullyQualifiedName, ":")), ":")
IsNested(c) == Len(Split(c.FullyQualifiedName, ":")) > 1

\* the active source classes form chains (each nested one has its parent
\* among them) and none of their paths is the path of a class of the target
ChainsAbsentFromTarget ==
    /\ \A c \in Transferred("Class") :
         IsNested(c) =>
            \E p \in Transferred("Class") : p.FullyQualifiedName = ParentPath(c)
    /\ \A c \in Transferred("Class"), t \in InitialTarget("Class") :
         t.FullyQualifiedName # c.FullyQualifiedName

\* C5 (as claimed): after one class transfer without API failure over chains
\* that were absent from the target, every class of a chain is in the target,
\* and each nested one was created with a ParentRef to the target id of the
\* class at its parent path.
C5_ChainCreatedWithParents ==
    (cur = "Class" /\ Len(ends) = 1 /\ faults = 0 /\ ChainsAbsentFromTarget) =>
        \A c \in Transferred("Class") :
            /\ \E t \in Range(target["Class"]) :
                    t.FullyQualifiedName = c.FullyQualifiedName
            /\ IsNested(c) =>
                 \E k \in CreatedIn(1), t \in Range(target["Class"]) :
                    /\ calls[k].src = c.Id
                    /\ t.FullyQualifiedName = ParentPath(c)
                    /\ calls[k].sent.ParentRef # None
                    /\ calls[k].sent.ParentRef[1].value = t.Id

\* C10: no save is ever issued for a source account whose Name is one of the
\* platform default account names, active or not, present in the target or
\* not; so no such account is created by the transfer.
C10_DefaultAccountsNeverCreated ==
    \A k \in 1..Len(calls) :
        calls[k].type = "Account" =>
            \A a \in Range(source["Account"]) :
                a.Id = calls[k].src => a.Name \notin default_patterns

\* an account transfer has finished that created an account, while the source
\* held an active account named "Accounts Payable" that the target lacked
C10_Witness ==
    /\ Len(ends) >= 1 /\ cur = "Account"
    /\ CreatedIn(1) # {}
    /\ \E a \in Range(source["Account"]) :
          /\ a.Name = AccountsPayable /\ a.Active = "true"
          /\ \A t \in Range(target["Account"]) : t.Name # a.Name

\* the source records of type T that the filter of transfer_<type>() keeps
KeptCount(T) ==
    Cardinality({k \in 1..Len(source[T]) :
                    /\ source[T][k].Active = "true"
                    /\ T = "Account" => ~_is_default_account(source[T][k])})

\* C11: a source account or employee whose Active is false or missing is not
\* in the list the transfer loops over, no save is issued for it, it gets no
\* id_mapping entry and the number of processed records does not count it.
C11_InactiveExcluded ==
    \A T \in {"Account", "Employee"} :
        cur = T =>
            /\ \A r \in Range(source[T]) :
                 r.Active # "true" =>
                    /\ r \notin Range(queue)
                    /\ \A k \in 1..Len(calls) : calls[k].src # r.Id
                    /\ r.Id \notin DOMAIN id_mapping[T]
            /\ \A n \in 1..Len(ends) : ends[n].processed = KeptCount(T)

\* an account or employee transfer has finished and created a record, while
\* the source also held a record without an Active field
C11_Witness ==
    /\ cur \in {"Account", "Employee"} /\ Len(ends) >= 1
    /\ CreatedIn(1) # {}
    /\ \E r \in Range(source[cur]) : r.Active = "absent"

\* C12 (as claimed): a source vendor whose Active is false is not in the list
\* the vendor transfer loops over and no save is issued for it.
C12_InactiveVendorsDropped ==
    cur = "Vendor" =>
        \A r \in Range(source["Vendor"]) :
            r.Active = "false" =>
                /\ r \notin Range(queue)
                /\ \A k \in 1..Len(calls) : calls[k].src # r.Id

\* C13 (as claimed): the list the account transfer loops over has every
\* account after the account its ParentRef names, whatever the order the
\* source returned them in.
C13_ParentsBeforeChildren ==
    (cur = "Account" /\ pc = "loop") =>
        \A i, j \in 1..Len(queue) :
            ( /\ queue[j].ParentRef # None
              /\ queue[j].ParentRef[1].value = queue[i].Id ) => i < j

\* the step sends a create of the record the loop is at
CreateAttempted ==
    /\ Len(calls') = Len(calls) + 1
    /\ calls'[Len(calls')].src = queue[idx].Id
    /\ calls'[Len(calls')].created

\* the step that runs the loader of the transfer's own catalog, the fetch failing
CatalogFetchFails == pc = "load_target" /\ cur \in PlainTypes /\ ~catalog_loaded'

\* a step of the loop of a plain transfer whose catalog fetch had failed
LoopAfterFailedFetch ==
    pc = "loop" /\ cur \in PlainTypes /\ ~catalog_loaded /\ idx' = idx + 1

\* the direct query of _find_existing_vendor finds the vendor in the target
FoundByQuery ==
    /\ cur = "Vendor"
    /\ \E t \in Range(target["Vendor"]) : t.DisplayName = _get_display_name(queue[idx])

ParentsInQueue(r) ==
    {i \in 1..Len(queue) :
        /\ r.ParentRef # None
        /\ queue[i].Id = r.ParentRef[1].value
        /\ \E j \in (i + 1)..Len(queue) : queue[j] = r}

\* C19 (as claimed): when the account catalog was fetched and an account is
\* created whose parent is in the transfer set, ahead of it, and was in the
\* target before the transfer, the parent's source id is in
\* id_mapping['Account'] and the account is sent with a ParentRef that is the
\* id of the parent in the target.
C19_ChildOfExistingParent ==
    (cur = "Account" /\ catalog_loaded) =>
        \A k \in SavesOf(passNo) :
            \A r \in {x \in Range(queue) : x.Id = calls[k].src} :
                \A i \in ParentsInQueue(r) :
                    \A t \in {x \in InitialTarget("Account") : x.Name = queue[i].Name} :
                        /\ queue[i].Id \in DOMAIN id_mapping["Account"]
                        /\ calls[k].sent.ParentRef # None
                        /\ calls[k].sent.ParentRef[1].value = t.Id

\* C20 (as claimed): in a class pass whose catalog was fetched, the loop skips
\* a source class exactly when the target holds a class with the same
\* FullyQualifiedName.
C20_SkippedIffSamePath ==
    [][(pc = "loop" /\ cur = "Class" /\ catalog_loaded /\ idx' = idx + 1) =>
          (skipped_count' = skipped_count + 1
             <=> \E t \in Range(target["Class"]) :
                    t.FullyQualifiedName = queue[idx].FullyQualifiedName)]_vars

\* C21 (as claimed): every create of a class whose FullyQualifiedName has more
\* than one segment is sent with a ParentRef, and the ParentRef is the id of
\* the target class at its parent path.
C21_NestedClassHasParent ==
    \A k \in 1..Len(calls) :
        (calls[k].type = "Class" /\ calls[k].created /\ IsNested(calls[k].sent)) =>
            /\ calls[k].sent.ParentRef # None
            /\ \E t \in Range(target["Class"]) :
                  /\ t.Id = calls[k].sent.ParentRef[1].value
                  /\ t.FullyQualifiedName = ParentPath(calls[k].sent)

\* the source record a save was issued for
SourceOf(k) == CHOOSE r \in Range(source[calls[k].type]) : r.Id = calls[k].src

\* C27: within one pass over a plain entity type, after a create for a record
\* with display key k was accepted no create is issued for another record with
\* display key k: the later record is found in the catalog and skipped.
C27_OneCreatePerKey ==
    \A k1, k2 \in 1..Len(calls) :
        ( /\ k1 < k2
          /\ calls[k1].pass = calls[k2].pass
          /\ calls[k1].type \in PlainTypes
          /\ calls[k1].created /\ calls[k1].result = "ok"
          /\ calls[k2].created ) =>
            LookupKey(calls[k1].type, SourceOf(k1)) # LookupKey(calls[k2].type, SourceOf(k2))

\* the first pass created a record and skipped a later record of the same
\* display key that the target did not hold before
C27_Witness ==
    /\ passNo = 1 /\ pc = "main" /\ Len(ends) = 1 /\ ends[1].skipped >= 1
    /\ InitialTarget(cur) = {}
    /\ \E k \in CreatedIn(1), r \in Range(queue) :
          /\ r.Id # calls[k].src
          /\ LookupKey(cur, r) = LookupKey(cur, SourceOf(k))

-----------------------------------------------------------------------------
(* Properties of the journal-entry transfer, checked under SpecJournal *)

\* the saves of journal entries issued so far
JournalSaves == {k \in 1..Len(calls) : calls[k].type = "JournalEntry"}

\* the source entry save k was issued for
SourceJournalOf(k) ==
    CHOOSE j \in Range(source["JournalEntry"]) : j.Id = calls[k].src

\* the source lines that carry a detail with an account reference
HasAccountRef(line) ==
    /\ line.JournalEntryLineDetail # None
    /\ line.JournalEntryLineDetail[1].AccountRef # None

\* the target account catalog holds the number_name key or the name of the
\* account the line refers to
AccountResolves(line) ==
    /\ HasAccountRef(line)
    /\ LET ref == line.JournalEntryLineDetail[1].AccountRef[1]
           hits == {a \in Range(source["Account"]) : a.Id = ref.value}
       IN  /\ hits # {}
           /\ \E a \in hits :
                \/ Has(existing["Account"], AccountKey(Strip(a.AcctNum), Strip(ref.name)))
                \/ Has(existing["Account"], Strip(ref.name))

\* the reference to the target account the catalog resolves the line to
ResolvedAccount(line) ==
    LET ref == line.JournalEntryLineDetail[1].AccountRef[1]
        a == CHOOSE x \in Range(source["Account"]) : x.Id = ref.value
        key == AccountKey(Strip(a.AcctNum), Strip(ref.name))
        t == IF Has(existing["Account"], key) THEN existing["Account"][key]
             ELSE existing["Account"][Strip(ref.name)]
    IN  Some(Ref(t.Id, t.Name))

HasClassRef(line) ==
    /\ line.JournalEntryLineDetail # None
    /\ line.JournalEntryLineDetail[1].ClassRef # None

\* no name the mapper tries for the line's class is a key of the target class
\* catalog, or the class is not in the source-class cache
ClassUnmappable(line) ==
    /\ HasClassRef(line)
    /\ LET id == line.JournalEntryLineDetail[1].ClassRef[1].value
       IN  id \in DOMAIN source_classes =>
              \A n \in Range(ClassNamesToTry(source_classes[id])) :
                 ~Has(existing["Class"], n)

\* the lines of an entry sent to the target that were built from a source line
BuiltFrom(k, line) ==
    {i \in 1..Len(calls[k].sent.Line) : calls[k].sent.Line[i].Amount = line.Amount}

\* C6: a journal line whose account reference resolves neither by its
\* number_name key nor by its name in the target account catalog is not among
\* the lines of the journal entry sent to the target.
C6_UnresolvedLineExcluded ==
    \A k \in JournalSaves :
        \A line \in Range(SourceJournalOf(k).Line) :
            (HasAccountRef(line) /\ ~AccountResolves(line)) => BuiltFrom(k, line) = {}

\* C7: a journal line whose account reference resolves and whose class
\* reference cannot be mapped is among the lines of the journal entry sent to
\* the target, its detail carrying the mapped account reference and no class
\* reference.
C7_ClassFailureKeepsLine ==
    \A k \in JournalSaves :
        \A line \in Range(SourceJournalOf(k).Line) :
            (AccountResolves(line) /\ ClassUnmappable(line)) =>
                /\ BuiltFrom(k, line) # {}
                /\ \A i \in BuiltFrom(k, line) :
                      LET detail == calls[k].sent.Line[i].JournalEntryLineDetail
                      IN  /\ detail # None
                          /\ detail[1].AccountRef = ResolvedAccount(line)
                          /\ detail[1].ClassRef = None

\* an entry was saved for a source entry with a line whose account resolved
\* and whose class, although in the source-class cache, matched no target class
C7_Witness ==
    \E k \in JournalSaves :
        /\ calls[k].result = "ok"
        /\ \E line \in Range(SourceJournalOf(k).Line) :
              /\ AccountResolves(line) /\ ClassUnmappable(line)
              /\ line.JournalEntryLineDetail[1].ClassRef[1].value \in DOMAIN source_classes
              /\ BuiltFrom(k, line) # {}

\* C8: the entry sent to update an existing target entry has one line per line
\* of the current source entry, in the source's order and with the source's
\* amounts: no line the target entry had before is kept, none is added, also
\* when the source entry has no lines.
C8_UpdateReplacesLines ==
    \A k \in JournalSaves :
        ~calls[k].created =>
            /\ Len(calls[k].sent.Line) = Len(SourceJournalOf(k).Line)
            /\ \A i \in 1..Len(calls[k].sent.Line) :
                  calls[k].sent.Line[i].Amount = SourceJournalOf(k).Line[i].Amount

\* the last colon-delimited segment of a class's FullyQualifiedName
LastSegment(cls) == Last(Split(cls.FullyQualifiedName, ":"))

\* C9: when the class a journal line refers to is in the source-class cache
\* and the target class catalog has a key equal to the last colon-delimited
\* segment of its FullyQualifiedName, the line sent to the target refers to the
\* target class under that key.
C9_LastSegmentMatches ==
    \A k \in JournalSaves :
        \A line \in Range(SourceJournalOf(k).Line) :
            (HasClassRef(line) /\ (HasAccountRef(line) => AccountResolves(line))) =>
                \A c \in Range(source["Class"]) :
                    ( /\ c.Id = line.JournalEntryLineDetail[1].ClassRef[1].value
                      /\ c.Id \in DOMAIN source_classes
                      /\ Has(existing["Class"], LastSegment(c)) ) =>
                        \A i \in BuiltFrom(k, line) :
                            LET detail == calls[k].sent.Line[i].JournalEntryLineDetail
                                t == existing["Class"][LastSegment(c)]
                            IN  /\ detail # None
                                /\ detail[1].ClassRef = Some(Ref(t.Id, t.Name))

\* an entry was saved whose line refers to the nested source class
\* "Global:Region" while the target held "Region" as a key but not the full path
C9_Witness ==
    \E k \in JournalSaves :
        \E line \in Range(SourceJournalOf(k).Line), c \in Range(source["Class"]) :
            /\ HasClassRef(line) /\ AccountResolves(line)
            /\ c.Id = line.JournalEntryLineDetail[1].ClassRef[1].value
            /\ c.Id \in DOMAIN source_classes
            /\ Len(Split(c.FullyQualifiedName, ":")) > 1
            /\ Has(existing["Class"], LastSegment(c))
            /\ ~Has(existing["Class"], c.FullyQualifiedName)
            /\ BuiltFrom(k, line) # {}

\* the ids of the target records of type T
TargetIds(T) == {t.Id : t \in Range(target[T])}

\* the details of the lines of the journal entry sent by save k
SentDetails(k) ==
    {calls[k].sent.Line[i].JournalEntryLineDetail[1] :
        i \in {n \in 1..Len(calls[k].sent.Line) :
                  calls[k].sent.Line[n].JournalEntryLineDetail # None}}

\* C14 (as claimed): no line of a journal entry sent to the target carries a
\* reference copied from the source: the tax code reference, for which the
\* transfer holds no mapping, is absent, and the account, class and entity
\* references each name a record of the target.
C14_NoSourceIdCopied ==
    \A k \in JournalSaves :
        \A d \in SentDetails(k) :
            /\ d.TaxCodeRef = None
            /\ d.AccountRef # None => d.AccountRef[1].value \in TargetIds("Account")
            /\ d.ClassRef # None => d.ClassRef[1].value \in TargetIds("Class")
            /\ d.Entity # None =>
                  d.Entity[1].EntityRef[1].value \in TargetIds(d.Entity[1].Type[1])

\* the mapped references alone: they do name records of the target
C14_MappedReferences ==
    \A k \in JournalSaves :
        \A d \in SentDetails(k) :
            /\ d.AccountRef # None => d.AccountRef[1].value \in TargetIds("Account")
            /\ d.ClassRef # None => d.ClassRef[1].value \in TargetIds("Class")
            /\ d.Entity # None =>
                  d.Entity[1].EntityRef[1].value \in TargetIds(d.Entity[1].Type[1])

\* the line's detail names a vendor of the source as its entity
HasVendorEntity(line) ==
    /\ line.JournalEntryLineDetail # None
    /\ line.JournalEntryLineDetail[1].Entity # None
    /\ line.JournalEntryLineDetail[1].Entity[1].Type = Some("Vendor")
    /\ line.JournalEntryLineDetail[1].Entity[1].EntityRef # None
    /\ SourceGet(source, "Vendor",
                 line.JournalEntryLineDetail[1].Entity[1].EntityRef[1].value) # None

\* the target vendors that bear the DisplayName of the source vendor the line names
TargetVendorsOf(line) ==
    LET sv == SourceGet(source, "Vendor",
                        line.JournalEntryLineDetail[1].Entity[1].EntityRef[1].value)[1]
    IN  {t \in Range(target["Vendor"]) :
            /\ Strip(t.DisplayName) # <<>>
            /\ Strip(t.DisplayName) = Strip(sv.DisplayName)}

\* C18 (as claimed): with no API failure, a line sent to the target that was
\* built from a source line whose entity is a vendor with the DisplayName of a
\* target vendor carries an Entity whose reference is that target vendor's id.
C18_VendorEntityMapped ==
    faults = 0 =>
        \A k \in JournalSaves :
            \A line \in Range(SourceJournalOf(k).Line) :
                (HasVendorEntity(line) /\ TargetVendorsOf(line) # {}) =>
                    \A i \in BuiltFrom(k, line) :
                        LET d == calls[k].sent.Line[i].JournalEntryLineDetail[1] IN
                        /\ d.Entity # None
                        /\ \E t \in TargetVendorsOf(line) :
                              d.Entity[1].EntityRef[1].value = t.Id

RECURSIVE AppendAllNew(_, _)
AppendAllNew(names, more) ==
    IF more = <<>> THEN names
    ELSE AppendAllNew(AppendNew(names, Head(more)), Tail(more))

\* the two-segment windows of a path, from its end moving backward
TwoSegmentWindows(parts) ==
    [k \in 1..(Len(parts) - 1) |->
        Join(SubSeq(parts, Len(parts) - k, Len(parts) - k + 1), ":")]

\* the candidate list as claimed: last segment, full path, two-segment
\* windows, plain Name
ClaimedClassNames(source_class) ==
    LET fully_qualified_name == Strip(source_class.FullyQualifiedName)
        parts == Split(fully_qualified_name, ":")
        fromPath == IF fully_qualified_name # <<>>
                    THEN AppendAllNew(<<Strip(Last(parts)), fully_qualified_name>>,
                                      TwoSegmentWindows(parts))
                    ELSE <<>>
    IN  AppendNew(fromPath, Strip(source_class.Name))

\* C22 (as claimed): for every class of the source-class cache the names the
\* mapper tries against the target class catalog are the last segment of the
\* path, the full path, the two-segment windows from the end backward and the
\* plain Name, in this order and nothing else.
C22_CandidatesAsClaimed ==
    \A id \in DOMAIN source_classes :
        ClassNamesToTry(source_classes[id]) = ClaimedClassNames(source_classes[id])

\* C23 (as claimed): once the loaders have run without an API failure, the key
\* that is the FullyQualifiedName of a target class is bound to that class in
\* the target class catalog, whatever the order the target returned its
\* classes in.
C23_PathKeyBoundToItsClass ==
    (cur = "JournalEntry" /\ pc # "load_target" /\ faults = 0) =>
        \A t \in Range(target["Class"]) :
            /\ Has(existing["Class"], Strip(t.FullyQualifiedName))
            /\ existing["Class"][Strip(t.FullyQualifiedName)] = t

\* the composite key "<AcctNum>_<name>" of the line's account reference
CompositeKeyOf(line) ==
    LET ref == line.JournalEntryLineDetail[1].AccountRef[1]
        a == CHOOSE x \in Range(source["Account"]) : x.Id = ref.value
    IN  AccountKey(Strip(a.AcctNum), Strip(ref.name))

NameKeyOf(line) == Strip(line.JournalEntryLineDetail[1].AccountRef[1].name)

\* the reference to the target account the catalog binds to key
AccountRefAt(key) ==
    Some(Ref(existing["Account"][key].Id, existing["Account"][key].Name))

\* C24: a line sent to the target that was built from a source line with an
\* account reference carries the target account bound to the composite key
\* "<source AcctNum>_<name>" if the catalog has that key, otherwise the target
\* account bound to the name alone, and no mapped reference (no detail) only
\* when the catalog has neither key.
C24_CompositeKeyThenName ==
    \A k \in JournalSaves :
        \A line \in {l \in Range(SourceJournalOf(k).Line) : HasAccountRef(l)} :
            \A i \in BuiltFrom(k, line) :
                LET d == calls[k].sent.Line[i].JournalEntryLineDetail IN
                IF Has(existing["Account"], CompositeKeyOf(line))
                THEN d # None /\ d[1].AccountRef = AccountRefAt(CompositeKeyOf(line))
                ELSE IF Has(existing["Account"], NameKeyOf(line))
                THEN d # None /\ d[1].AccountRef = AccountRefAt(NameKeyOf(line))
                ELSE d = None

\* an entry was saved with a line mapped through the name alone, the catalog
\* lacking its composite key
C24_Witness ==
    \E k \in JournalSaves :
        /\ calls[k].result = "ok"
        /\ \E line \in {l \in Range(SourceJournalOf(k).Line) : HasAccountRef(l)} :
              /\ BuiltFrom(k, line) # {}
              /\ ~Has(existing["Account"], CompositeKeyOf(line))
              /\ Has(existing["Account"], NameKeyOf(line))

\* C26: a source line whose account reference resolves under neither key is
\* among the lines of the entry sent to the target, carrying no line detail;
\* with no API failure every entry the loop has passed was sent, and a sent
\* entry is mapped exactly when the target accepted it.
C26_UnmappedAccountLineSentBare ==
    /\ \A k \in JournalSaves :
          /\ \A line \in Range(SourceJournalOf(k).Line) :
                (HasAccountRef(line) /\ ~AccountResolves(line)) =>
                    /\ BuiltFrom(k, line) # {}
                    /\ \A i \in BuiltFrom(k, line) :
                          calls[k].sent.Line[i].JournalEntryLineDetail = None
          /\ calls[k].result = "ok" <=> calls[k].src \in DOMAIN id_mapping["JournalEntry"]
    /\ (cur = "JournalEntry" /\ pc \in {"loop", "main"} /\ faults = 0) =>
          \A j \in 1..(idx - 1) : \E k \in JournalSaves : calls[k].src = queue[j].Id

\* an entry with a line whose account reference resolves under neither key was
\* sent and accepted
C26_Witness ==
    \E k \in JournalSaves :
        /\ calls[k].result = "ok"
        /\ \E line \in Range(SourceJournalOf(k).Line) :
              /\ HasAccountRef(line) /\ ~AccountResolves(line)
              /\ BuiltFrom(k, line) # {}

\* the target entries with the (TxnDate, DocNumber) key of entry j
TargetEntriesAt(j) ==
    {t \in Range(target["JournalEntry"]) :
        _get_journal_identifier(t) = _get_journal_identifier(j)}

\* C28: when the target accepts the saves of two source entries of one pass
\* that have the same (TxnDate, DocNumber), the second save is an update of
\* the entry the first save returned, both source ids are mapped to that
\* entry's id and the target holds one entry with that key.
C28_SameKeySameEntry ==
    \A k1, k2 \in JournalSaves :
        ( /\ k1 < k2 /\ calls[k1].src # calls[k2].src
          /\ calls[k1].result = "ok" /\ calls[k2].result = "ok"
          /\ _get_journal_identifier(SourceJournalOf(k1))
                = _get_journal_identifier(SourceJournalOf(k2)) ) =>
            /\ ~calls[k2].created
            /\ calls[k2].sent.Id = calls[k1].id
            /\ calls[k2].id = calls[k1].id
            /\ id_mapping["JournalEntry"][calls[k1].src] = calls[k1].id
            /\ id_mapping["JournalEntry"][calls[k2].src] = calls[k1].id
            /\ Cardinality(TargetEntriesAt(SourceJournalOf(k1))) = 1

\* both entries of a pair with one key were saved and accepted
C28_Witness ==
    \E k1, k2 \in JournalSaves :
        /\ k1 < k2 /\ calls[k1].src # calls[k2].src
        /\ calls[k1].result = "ok" /\ calls[k2].result = "ok"
        /\ _get_journal_identifier(SourceJournalOf(k1))
              = _get_journal_identifier(SourceJournalOf(k2))
        /\ pc = "main" /\ Len(ends) = 1

(* Properties of the entity mappers, checked under SpecEntity *)

\* the target vendors whose DisplayName is the name hint the line's entity
\* reference carries
TargetVendorsAtHint(line) ==
    {t \in Range(target["Vendor"]) :
        /\ Strip(t.DisplayName) # <<>>
        /\ Strip(t.DisplayName) =
              Strip(line.JournalEntryLineDetail[1].Entity[1].EntityRef[1].name)}

\* C25 (as claimed): with no API failure, a line sent to the target that was
\* built from a source line whose entity is a vendor with a DisplayName no
\* target vendor has, and with a name hint that is the DisplayName of a target
\* vendor, carries an Entity whose reference is that target vendor's id.
C25_VendorMappedThroughHint ==
    faults = 0 =>
        \A k \in JournalSaves :
            \A line \in Range(SourceJournalOf(k).Line) :
                ( /\ HasVendorEntity(line)
                  /\ TargetVendorsOf(line) = {}
                  /\ TargetVendorsAtHint(line) # {} ) =>
                    \A i \in BuiltFrom(k, line) :
                        LET d == calls[k].sent.Line[i].JournalEntryLineDetail[1] IN
                        /\ d.Entity # None
                        /\ \E t \in TargetVendorsAtHint(line) :
                              d.Entity[1].EntityRef[1].value = t.Id

-----------------------------------------------------------------------------
(* Properties of the whole pipeline, checked under Spec *)

\* the passes whose mappings the journal-entry pass is to read
MappedEarlier == {"Account", "Employee", "Class", "Vendor"}

\* C3: when the journal-entry pass processes its records, its id_mapping
\* holds every source_id -> target_id entry an earlier pass of accounts,
\* employees, classes or vendors recorded.
C3_EarlierMappingsVisible ==
    (cur = "JournalEntry" /\ pc = "loop") =>
        \A n \in 1..Len(ends) :
            ends[n].type \in MappedEarlier =>
                \A s \in DOMAIN ends[n].id_mapping[ends[n].type] :
                    /\ ends[n].type \in DOMAIN id_mapping
                    /\ s \in DOMAIN id_mapping[ends[n].type]
                    /\ id_mapping[ends[n].type][s] = ends[n].id_mapping[ends[n].type][s]

\* a step in which a save is sent to the target and rejected
FailedCreate ==
    /\ Len(calls') = Len(calls) + 1
    /\ calls'[Len(calls')].result # "ok"

\* the vendor transfer read the id of the existing vendor out of the rejection
\* (code 6240) and recorded it as the mapping of the record
RecoveredVendor ==
    /\ cur = "Vendor"
    /\ queue[idx].Id \in DOMAIN id_mapping'["Vendor"]

\* C15 (as claimed): a rejected create leaves the count of successful
\* operations as it was, the loop moves on to the next record and the pass
\* does not raise.
C15_FailureNeverCounted ==
    [][FailedCreate =>
          /\ pc' = "loop" /\ queue' = queue /\ idx' = idx + 1
          /\ success_count' = success_count]_vars

\* C15 (amended): a rejected create leaves the count of successful operations
\* as it was, unless it is a vendor whose id the transfer recovered from the
\* rejection; the loop moves on to the next record and the pass does not raise.
C15_FailureIsolated ==
    [][FailedCreate =>
          /\ pc' = "loop" /\ queue' = queue /\ idx' = idx + 1
          /\ success_count' = success_count \/ RecoveredVendor]_vars

\* a pass in which a create was rejected, a later record was created and the
\* summary was reached with fewer successes than records
C15_Witness ==
    \E k \in 1..Len(calls), n \in 1..Len(ends) :
        /\ calls[k].result # "ok"
        /\ ends[n].pass = calls[k].pass
        /\ ends[n].successful < ends[n].processed
        /\ \E j \in (k + 1)..Len(calls) :
              calls[j].pass = calls[k].pass /\ calls[j].result = "ok"


\* C17: no step of the six transfers changes a record of the source tenant, and
\* every call that writes is a save issued to the target tenant.
C17_SourceReadOnly ==
    [][/\ source' = source
       /\ \A k \in 1..Len(calls') :
             calls'[k].tenant = "target" /\ calls'[k].op = "save"]_vars

\* the six transfers have run to their summaries, a plain transfer and the
\* journal transfer each having saved a record
C17_Witness ==
    /\ Len(ends) = 6 /\ pc = "main"
    /\ \E k \in 1..Len(calls) : calls[k].type = "JournalEntry" /\ calls[k].result = "ok"
    /\ \E k \in 1..Len(calls) : calls[k].type \in PlainTypes /\ calls[k].result = "ok"

(* Properties of a rejected save, checked under SpecJournal *)

\* C29 (as claimed): a step in which a save is rejected leaves id_mapping and
\* the in-memory catalogs as they were before the record was processed.
C29_FailedSaveChangesNothing ==
    [][FailedCreate => (id_mapping' = id_mapping /\ existing' = existing)]_vars

(* Properties of the vendor catalog, checked under SpecTwice *)

\* C30 (as claimed): a source vendor is skipped only if some target vendor has
\* the same DisplayName; a DisplayName that merely equals the Id of a target
\* vendor does not make the source vendor count as existing.
C30_SkippedOnlyByDisplayName ==
    [][(transfer_vendors_step /\ skipped_count' = skipped_count + 1) =>
         \E t \in Range(target["Vendor"]) :
             t.DisplayName = _get_display_name(queue[idx])]_vars

(* Properties of the class reference mapper, checked under SpecClassRef *)

\* the line's detail names a class held in the source-class cache
HasCachedClass(line) ==
    /\ line.JournalEntryLineDetail # None
    /\ line.JournalEntryLineDetail[1].ClassRef # None
    /\ line.JournalEntryLineDetail[1].ClassRef[1].value \in DOMAIN source_classes

\* the target classes at the path of the source class the line names
TargetClassesAtPath(line) ==
    LET sc == source_classes[line.JournalEntryLineDetail[1].ClassRef[1].value]
    IN  {t \in Range(target["Class"]) :
            /\ t.FullyQualifiedName = sc.FullyQualifiedName
            /\ Has(existing["Class"], t.FullyQualifiedName)}

TargetAccountsWithId(id) == {t \in Range(target["Account"]) : t.Id = id}

\* C32 (as claimed): the account reference of a line sent to the target names
\* a target account whose Name is the name the source reference carries: the
\* number_name key of one account never resolves to an account with another
\* name, such as an account whose Name has the form of a key.
C32_MappedAccountHasSourceName ==
    \A k \in JournalSaves :
        \A line \in Range(SourceJournalOf(k).Line) :
            HasAccountRef(line) =>
                \A i \in BuiltFrom(k, line) :
                    calls[k].sent.Line[i].JournalEntryLineDetail # None =>
                        LET d == calls[k].sent.Line[i].JournalEntryLineDetail[1] IN
                        \A t \in TargetAccountsWithId(d.AccountRef[1].value) :
                            Strip(t.Name) = Strip(line.JournalEntryLineDetail[1].AccountRef[1].name)

(* Properties of the summary of a pass, checked under SpecTwice *)

\* the saves of pass n that created a record in the target
CreatedInPass(n) ==
    {k \in 1..Len(calls) :
        calls[k].pass = ends[n].pass /\ calls[k].created /\ calls[k].result = "ok"}

\* C33 (as claimed): in the summary of every pass total-successful is at most
\* processed, newly-created is the number of records the pass created in the
\* target, and total-successful is skipped-existing + newly-created (for
\* journal entries: updated + created).
C33_SummaryCountsWhatHappened ==
    \A n \in 1..Len(ends) :
        /\ ends[n].successful <= ends[n].processed
        /\ ends[n].created = Cardinality(CreatedInPass(n))
        /\ ends[n].successful =
              ends[n].created + (IF ends[n].type = "JournalEntry" THEN ends[n].updated
                                 ELSE ends[n].skipped)

(* Properties of the id-mapping within a pass, checked under Spec *)

\* every entry of the table is in the table after the step, with its target id
MappingKept ==
    \A T \in DOMAIN id_mapping :
        /\ T \in DOMAIN id_mapping'
        /\ \A id \in DOMAIN id_mapping[T] :
              id \in DOMAIN id_mapping'[T] /\ id_mapping'[T][id] = id_mapping[T][id]

\* an iteration of the loop of a pass writes entries for its own record only,
\* and goes on to the next record
WritesOwnRecordOnly ==
    pc = "loop" =>
        \A T \in DOMAIN id_mapping' :
            \A id \in DOMAIN id_mapping'[T] \ DOMAIN id_mapping[T] :
                idx <= Len(queue) /\ id = queue[idx].Id /\ idx' = idx + 1

\* C34: within a pass an entry id_mapping[type][source_id], once written, is
\* neither removed nor changed, and the entry of a source record is written
\* by the one iteration that processes the record: at most once.
C34_MappingWrittenOnce ==
    [][passNo' = passNo => (MappingKept /\ WritesOwnRecordOnly)]_vars

\* two accounts mapped in one pass, and later the journal pass holding the
\* entries its loaders wrote and the entry of a journal it saved
C34_Witness ==
    /\ \E n \in 1..Len(ends) :
          ends[n].type = "Account" /\ Cardinality(DOMAIN ends[n].id_mapping["Account"]) = 2
    /\ \E n \in 1..Len(ends) :
          ends[n].type = "Vendor" /\ DOMAIN ends[n].id_mapping["Vendor"] # {}
    /\ cur = "JournalEntry" /\ pc = "main"
    /\ DOMAIN id_mapping["Account"] # {}
    /\ DOMAIN id_mapping["JournalEntry"] # {}

(* Properties of the id-mapping file, checked under SpecPersist *)

\* C35 (as claimed): a transfer starts from the table the file id_mapping.json
\* holds, if there is such a file, and when a pass has ended the file holds
\* the mappings the pass recorded, so that a later run finds them.
C35_MappingPersisted ==
    /\ (pc = "load_target" /\ mapping_file # None) =>
          id_mapping = load_id_mapping(mapping_file, id_mapping)
    /\ \A n \in 1..Len(ends) :
          /\ mapping_file # None
          /\ \A id \in DOMAIN ends[n].id_mapping[ends[n].type] :
                /\ ends[n].type \in DOMAIN mapping_file[1]
                /\ id \in DOMAIN mapping_file[1][ends[n].type]
                /\ mapping_file[1][ends[n].type][id] = ends[n].id_mapping[ends[n].type][id]

(* Properties of the hierarchy sort, checked under SpecDepth *)

\* C36 (as claimed): the walk along ParentRef from an account ends after at
\* most as many steps as there are accounts, also when the links form a cycle.
C36_WalkBoundedByRecords ==
    walk # None => walk[1].depth <= Len(walk[1].accounts)

(* Properties of the duplicate-name recovery, checked under SpecTwice *)

\* a step of the vendor transfer in which the target rejects the create with
\* a QuickbooksException
VendorRejected ==
    /\ cur = "Vendor" /\ FailedCreate
    /\ calls'[Len(calls')].error # None

\* the rejection carries the duplicate-name code and its detail names an id
DuplicateNameWithId(error) == error.error_code = <<"6240">> /\ error.detail # None

\* C37: when the create of a vendor is rejected with code 6240 and the detail
\* names an id, the vendor is mapped to that id and counted as successful;
\* with another code, or no id in the detail, it is not counted and not
\* mapped; either way the loop goes on to the next vendor.
C37_DuplicateNameRecovery ==
    [][VendorRejected =>
          LET error == calls'[Len(calls')].error[1] IN
          /\ pc' = "loop" /\ queue' = queue /\ idx' = idx + 1
          /\ IF DuplicateNameWithId(error)
             THEN /\ id_mapping' = [id_mapping EXCEPT !["Vendor"] =
                                       Put(@, queue[idx].Id, error.detail[1])]
                  /\ success_count' = success_count + 1
             ELSE /\ id_mapping' = id_mapping
                  /\ success_count' = success_count]_vars

\* a pass in which a vendor was mapped to the id its rejection named, went on
\* to a later vendor and counted the recovered one in its summary
C37_Witness ==
    \E k \in 1..Len(calls), n \in 1..Len(ends) :
        /\ calls[k].type = "Vendor" /\ calls[k].result = "qb_error"
        /\ calls[k].error # None /\ DuplicateNameWithId(calls[k].error[1])
        /\ ends[n].pass = calls[k].pass
        /\ ends[n].id_mapping["Vendor"][calls[k].src] = calls[k].error[1].detail[1]
        /\ ends[n].successful = ends[n].processed
        /\ \E j \in (k + 1)..Len(calls) : calls[j].pass = calls[k].pass

(* Properties of unsupported entities, checked under SpecUnsupported *)

\* the line's detail carries an entity without Type or EntityRef, or of a type
\* other than Employee and Vendor
HasUnsupportedEntity(line) ==
    /\ line.JournalEntryLineDetail # None
    /\ line.JournalEntryLineDetail[1].Entity # None
    /\ LET entity == line.JournalEntryLineDetail[1].Entity[1] IN
       \/ entity.Type = None
       \/ entity.EntityRef = None
       \/ entity.Type[1] \notin {"Employee", "Vendor"}

\* the account reference the mapper yields for the line, its entity aside
MappedAccountOf(line) ==
    LET ref == line.JournalEntryLineDetail[1].AccountRef[1]
    IN  _map_account_reference(Self, ref, SourceGet(source, "Account", ref.value)[1])

\* the class reference the mapper yields for the line, its entity aside
MappedClassOf(line) ==
    _map_class_reference(Self, source_classes, line.JournalEntryLineDetail[1].ClassRef[1])

\* C38: a line sent to the target that was built from a source line with an
\* unsupported entity carries no Entity, and its AccountRef and ClassRef are
\* what the mappers yield for the line's account and class.
C38_UnsupportedEntityAbsent ==
    \A k \in JournalSaves :
        \A line \in Range(SourceJournalOf(k).Line) :
            HasUnsupportedEntity(line) =>
                \A i \in BuiltFrom(k, line) :
                    calls[k].sent.Line[i].JournalEntryLineDetail # None =>
                        LET d == calls[k].sent.Line[i].JournalEntryLineDetail[1] IN
                        /\ d.Entity = None
                        /\ d.AccountRef = MappedAccountOf(line)
                        /\ d.ClassRef = MappedClassOf(line)

\* an entry saved with a line built from a line whose entity is a customer:
\* account and class mapped, and the employee catalog holds the entity's name
C38_Witness ==
    \E k \in JournalSaves :
        /\ calls[k].result = "ok"
        /\ \E line \in Range(SourceJournalOf(k).Line) :
              /\ HasUnsupportedEntity(line)
              /\ line.JournalEntryLineDetail[1].Entity[1].Type = Some("Customer")
              /\ \E i \in BuiltFrom(k, line) :
                    /\ calls[k].sent.Line[i].JournalEntryLineDetail # None
                    /\ calls[k].sent.Line[i].JournalEntryLineDetail[1].AccountRef # None
                    /\ calls[k].sent.Line[i].JournalEntryLineDetail[1].ClassRef # None
        /\ Has(existing["Employee"], <<"Ann", " ", "Lee">>)

(* Properties of a pass that raises, checked under Spec *)

\* C39: once a pass has raised nothing more happens: a pass is started only
\* when every pass started before it has reached its summary, and the step in
\* which a pass raises leaves the target as the earlier passes left it.
C39_FailedPassEndsRun ==
    [][/\ pc # "aborted"
       /\ passNo' # passNo => Len(ends) = passNo
       /\ pc' = "aborted" => target' = target]_vars

\* the source fetch of a pass raised after an earlier pass had created
\* records, with passes of the order still to run
C39_Witness ==
    /\ pc = "aborted" /\ plan # <<>>
    /\ Len(ends) >= 1 /\ Len(ends) = passNo - 1
    /\ \E k \in 1..Len(calls) :
          /\ calls[k].created /\ calls[k].result = "ok"
          /\ \E t \in Range(target[calls[k].type]) : t.Id = calls[k].id

====
